---- MODULE Spec2Model ----
(***************************************************************************)
(* Model of the SSDFS page/buffer helpers of fs/ssdfs/ssdfs_inline.h and   *)
(* of the page vector declared in fs/ssdfs/page_vector.h.                  *)
(*                                                                         *)
(* Ten specifications share the variables:                                 *)
(*   Spec       - page lifecycle, leak accounting and the pagevec          *)
(*   VectorSpec - page lifecycle, leak accounting and the page vector      *)
(*   CopySpec   - the bounded copy / move / fill primitives                *)
(*   UtilSpec   - checksum record and signature validation                 *)
(*   ConcSpec   - several execution contexts allocating, locking,          *)
(*                unlocking and freeing pages concurrently                 *)
(*   ConcFairSpec - the same contexts under a fair scheduler                *)
(*   FamilySpec - the checker and the allocator function family run on the *)
(*                same calls                                               *)
(*   LockSpec   - callers allocating, locking, unlocking and freeing in a  *)
(*                build with leak accounting, the lock and unlock calls    *)
(*                interleaved access by access                             *)
(*   MisuseSpec - the same callers freeing locked pages, taking over pages *)
(*                and locks that were never counted, and moving the        *)
(*                counters alone (account_page, forget_page,               *)
(*                account_locked_page)                                     *)
(*   SubsysSpec - two subsystems calling their generated checker functions *)
(*                on the same pages and pagevec                            *)
(* A specification leaves the variables of the others at their initial     *)
(* values.                                                                 *)
(***************************************************************************)
EXTENDS Integers, Sequences, FiniteSets, TLC

VARIABLES
    \* ---- page lifecycle, accounting, containers (Spec, VectorSpec) ----
    accounting,             \* CONFIG_SSDFS_MEMORY_LEAKS_ACCOUNTING of the build
    variant,                \* the function family the callers use: plain ssdfs_*() or
                            \* ssdfs_<name>_*() of the checker or the allocator macro
    page_held,              \* page id -> a caller or container owns the handle
    page_ref,               \* page id -> page_ref_count(page)
    page_live,              \* page id -> the page is allocated (not in the allocator)
    page_locked,            \* page id -> PageLocked(page)
    ssdfs_allocated_pages,  \* global outstanding-pages counter
    name_page_leaks,        \* the subsystem's ssdfs_<name>_page_leaks counter
    pvec,                   \* struct pagevec: [nr, pages]
    array,                  \* struct ssdfs_page_vector: [created, count, capacity, pages]
    op,                     \* the last operation: [name, ret, page, arg, zeroed, freed, warn]
    streak,                 \* consecutive release calls on one container, capped at 2
    \* ---- bounded copy primitives (CopySpec) ----
    cp_pc,                  \* "idle" | "done"
    cp_call,                \* the call made: [fn, dst_off, dst_size, src_off, src_size, size, value]
    cp_src,                 \* source object bytes
    cp_dst0,                \* destination object bytes before the call
    cp_dbg,                 \* outcome with CONFIG_SSDFS_DEBUG: [ret, dst, wild]
    cp_rel,                 \* outcome without CONFIG_SSDFS_DEBUG: [ret, dst, wild]
    \* ---- checksum and signature (UtilSpec) ----
    ut_pc,                  \* "idle" | "calculated" | "verified" | "magic"
    check,                  \* struct ssdfs_metadata_check: [bytes, flags, csum] as stored bytes
    ut_at,                  \* index of the first byte of the record inside buf, 0 when
                            \* the record lies outside the buffer
    buf,                    \* the checked buffer
    buf_size,               \* the buf_size argument
    ut_ret,                 \* last return value
    ut_old,                 \* the record as it was before the last call
    flipped,                \* index of the buffer byte one bit of which was inverted, or 0
    fresh,                  \* the record's csum was stored by a successful calculation
    ut_cov,                 \* the number of bytes that calculation covered
    sig,                    \* struct ssdfs_signature: [common, major, minor]
    \* ---- execution contexts running concurrently (ConcSpec) ----
    cx_pc,                  \* context -> where it is inside the function it called
    cx_page,                \* context -> the page it allocated and owns, or 0
    cx_target,              \* context -> the page it locks / holds locked, or 0
    cx_seen,                \* context -> the value its last atomic64_read() returned
    ssdfs_locked_pages,     \* global locked-pages counter
    cx_warn,                \* a context emitted SSDFS_WARN
    \* ---- the two generated function families side by side (FamilySpec) ----
    fm_chk,                 \* memory, counters and pagevec under SSDFS_MEMORY_LEAKS_CHECKER_FNS
    fm_alc,                 \* the same under SSDFS_MEMORY_ALLOCATOR_FNS
    fm_ret,                 \* what the last call returned in either family
    \* ---- a second instance of SSDFS_MEMORY_LEAKS_CHECKER_FNS (SubsysSpec) ----
    peer_page_leaks,        \* ssdfs_<peer>_page_leaks of the second subsystem
    \* ---- calls of ssdfs_lock_page / ssdfs_unlock_page in progress (LockSpec, MisuseSpec) ----
    lock_call,              \* page id -> the ssdfs_lock_page() call that is past lock_page():
                            \* [pc, warn], pc "none" | "read" | "count"
    unlock_call             \* page id -> the ssdfs_unlock_page() call that is past
                            \* unlock_page(): [pc, warn], pc "none" | "count" | "read"

pageVars == <<accounting, variant, page_held, page_ref, page_live, page_locked,
              ssdfs_allocated_pages, name_page_leaks, pvec, array, op, streak>>
copyVars == <<cp_pc, cp_call, cp_src, cp_dst0, cp_dbg, cp_rel>>
utilVars == <<ut_pc, check, ut_at, buf, buf_size, ut_ret, ut_old, flipped, fresh,
              ut_cov, sig>>
concVars == <<cx_pc, cx_page, cx_target, cx_seen, ssdfs_locked_pages, cx_warn>>
famVars == <<fm_chk, fm_alc, fm_ret>>
tagVars == <<peer_page_leaks>>
stepVars == <<lock_call, unlock_call>>
vars == <<pageVars, copyVars, utilVars, concVars, famVars, tagVars, stepVars>>

(***************************************************************************)
(* Error codes of the Linux errno table, as the negative return values.    *)
(***************************************************************************)
ENOMEM == 12
EINVAL == 22
E2BIG == 7
ERANGE == 34
\* the IndexOutOfRange of the page vector's remove
ENOENT == 2

(***************************************************************************)
(* u32 values.  TLC's integers are 32-bit signed, so a u32 is kept as its  *)
(* two 16-bit halves <<hi, lo>> and the arithmetic is done with carry.     *)
(***************************************************************************)
Half == 65536

U32(n) == <<0, n>>

U32_MAX == <<Half - 1, Half - 1>>

\* a + b in u32 arithmetic, i.e. modulo 2^32
Add32(a, b) ==
    LET lo == a[2] + b[2]
        hi == a[1] + b[1] + (lo \div Half)
    IN  <<hi % Half, lo % Half>>

\* a > b on u32 values
Gt32(a, b) == \/ a[1] > b[1]
              \/ a[1] = b[1] /\ a[2] > b[2]

\* a - 1 for a > 0
Dec32(a) == IF a[2] > 0 THEN <<a[1], a[2] - 1>> ELSE <<a[1] - 1, Half - 1>>

\* The mathematical (unbounded) a + b exceeds the small integer n.
MathSumExceeds(a, b, n) == \/ a[1] > 0
                           \/ b[1] > 0
                           \/ a[2] + b[2] > n

(***************************************************************************)
(* Bounded copy primitives.                                                *)
(*                                                                         *)
(* Every object (raw buffer or page) is ObjLen bytes long; PAGE_SIZE is    *)
(* scaled down to the same bound.  An access outside the object is         *)
(* undefined behaviour: the bytes read there are an arbitrary value        *)
(* (junk), the bytes written there land in foreign memory (wild).          *)
(***************************************************************************)
ObjLen == 3

MaxOff == 3

\* offsets, sizes and lengths passed by callers: small ones and the top of u32
U32Inputs == {U32(n) : n \in 0..MaxOff} \cup {U32_MAX, Dec32(U32_MAX)}

ByteInputs == {0, 90}

SrcPattern == [i \in 1..ObjLen |-> i]

DstPattern == [i \in 1..ObjLen |-> 200 + i]

Far(u) == u[1] > 0

\* memcpy(dst + doff, src + soff, n) on distinct objects: the bytes of the
\* destination object afterwards, and whether memory outside the two
\* objects was touched.
memcpy(dst, doff, src, soff, n, junk) ==
    [dst  |-> [k \in 1..ObjLen |->
                 IF /\ ~Far(doff)
                    /\ k - 1 >= doff[2]
                    /\ (Far(n) \/ k - 1 - doff[2] < n[2])
                 THEN IF ~Far(soff) /\ soff[2] + (k - 1 - doff[2]) < ObjLen
                      THEN src[soff[2] + (k - 1 - doff[2]) + 1]
                      ELSE junk
                 ELSE dst[k]],
     wild |-> /\ n # U32(0)
              /\ (MathSumExceeds(doff, n, ObjLen) \/ MathSumExceeds(soff, n, ObjLen))]

\* memmove() differs from memcpy() only for overlapping ranges of one object
memmove(dst, doff, src, soff, n, junk) == memcpy(dst, doff, src, soff, n, junk)

\* bytes i, i + 1, .. n - 1 of the range at s copied one by one, lowest
\* first, to the range at d of the same object
RECURSIVE ForwardCopy(_, _, _, _, _)
ForwardCopy(obj, d, s, n, i) ==
    IF i >= n THEN obj
    ELSE ForwardCopy([obj EXCEPT ![d + i + 1] = obj[s + i + 1]], d, s, n, i + 1)

\* bytes i - 1, i - 2, .. 0 of the range at s copied one by one, highest
\* first, to the range at d of the same object
RECURSIVE BackwardCopy(_, _, _, _, _)
BackwardCopy(obj, d, s, n, i) ==
    IF i = 0 THEN obj
    ELSE BackwardCopy([obj EXCEPT ![d + i] = obj[s + i]], d, s, n, i - 1)

\* the orders in which a memcpy() may copy the bytes
CopyOrders == {"forward", "backward"}

\* memcpy(obj + doff, obj + soff, n) inside one object, both ranges in the
\* object: for overlapping ranges the behaviour is undefined, the bytes
\* are copied in whichever order the build's memcpy() uses
memcpy_overlap(obj, doff, soff, n, order) ==
    [dst  |-> IF order = "forward"
              THEN ForwardCopy(obj, doff[2], soff[2], n[2], 0)
              ELSE BackwardCopy(obj, doff[2], soff[2], n[2], n[2]),
     wild |-> FALSE]

\* memmove(obj + doff, obj + soff, n) inside one object: forward when the
\* destination is not above the source, backward otherwise
memmove_overlap(obj, doff, soff, n) ==
    [dst  |-> IF doff[2] <= soff[2]
              THEN ForwardCopy(obj, doff[2], soff[2], n[2], 0)
              ELSE BackwardCopy(obj, doff[2], soff[2], n[2], n[2]),
     wild |-> FALSE]

\* memcpy_page(): kmap_local_page() both pages, memcpy(), kunmap
memcpy_page(dst, doff, src, soff, n, junk) == memcpy(dst, doff, src, soff, n, junk)

\* memcpy_page() with the same page as source and destination
memcpy_page_overlap(page, doff, soff, n, order) ==
    memcpy_overlap(page, doff, soff, n, order)

memcpy_from_page(dst, doff, src, soff, n, junk) == memcpy(dst, doff, src, soff, n, junk)

memcpy_to_page(dst, doff, src, soff, n, junk) == memcpy(dst, doff, src, soff, n, junk)

\* memset_page(page, doff, value, n): the value is converted to unsigned char
memset_page(dst, doff, value, n) ==
    [dst  |-> [k \in 1..ObjLen |->
                 IF /\ ~Far(doff)
                    /\ k - 1 >= doff[2]
                    /\ (Far(n) \/ k - 1 - doff[2] < n[2])
                 THEN value % 256
                 ELSE dst[k]],
     wild |-> n # U32(0) /\ MathSumExceeds(doff, n, ObjLen)]

memzero_page(dst, doff, n) == memset_page(dst, doff, 0, n)

\* The check "(off + size) > limit", computed in u32 as the C code does.
RangeExceeded(off, size, limit) == Gt32(Add32(off, size), limit)

Outcome(ret, r) == [ret |-> ret, dst |-> r.dst, wild |-> r.wild]

Refused(dst) == [ret |-> -ERANGE, dst |-> dst, wild |-> FALSE]

ssdfs_memcpy(debug, c, dst, src, junk) ==
    IF debug /\ RangeExceeded(c.src_off, c.size, c.src_size) THEN Refused(dst)
    ELSE IF debug /\ RangeExceeded(c.dst_off, c.size, c.dst_size) THEN Refused(dst)
    ELSE Outcome(0, memcpy(dst, c.dst_off, src, c.src_off, c.size, junk))

ssdfs_memcpy_page(debug, c, dst, src, junk) ==
    IF debug /\ RangeExceeded(c.src_off, c.size, c.src_size) THEN Refused(dst)
    ELSE IF debug /\ RangeExceeded(c.dst_off, c.size, c.dst_size) THEN Refused(dst)
    ELSE Outcome(0, memcpy_page(dst, c.dst_off, src, c.src_off, c.size, junk))

ssdfs_memcpy_from_page(debug, c, dst, src, junk) ==
    IF debug /\ RangeExceeded(c.src_off, c.size, c.src_size) THEN Refused(dst)
    ELSE IF debug /\ RangeExceeded(c.dst_off, c.size, c.dst_size) THEN Refused(dst)
    ELSE Outcome(0, memcpy_from_page(dst, c.dst_off, src, c.src_off, c.size, junk))

ssdfs_memcpy_to_page(debug, c, dst, src, junk) ==
    IF debug /\ RangeExceeded(c.src_off, c.size, c.src_size) THEN Refused(dst)
    ELSE IF debug /\ RangeExceeded(c.dst_off, c.size, c.dst_size) THEN Refused(dst)
    ELSE Outcome(0, memcpy_to_page(dst, c.dst_off, src, c.src_off, c.size, junk))

ssdfs_memmove(debug, c, dst, src, junk) ==
    IF debug /\ RangeExceeded(c.src_off, c.size, c.src_size) THEN Refused(dst)
    ELSE IF debug /\ RangeExceeded(c.dst_off, c.size, c.dst_size) THEN Refused(dst)
    ELSE IF c.same
    THEN Outcome(0, memmove_overlap(src, c.dst_off, c.src_off, c.size))
    ELSE Outcome(0, memmove(dst, c.dst_off, src, c.src_off, c.size, junk))

\* ssdfs_memmove_page() calls memcpy_page(), not a page memmove
ssdfs_memmove_page(debug, c, dst, src, junk) ==
    IF debug /\ RangeExceeded(c.src_off, c.size, c.src_size) THEN Refused(dst)
    ELSE IF debug /\ RangeExceeded(c.dst_off, c.size, c.dst_size) THEN Refused(dst)
    ELSE IF c.same
    THEN Outcome(0, memcpy_page_overlap(src, c.dst_off, c.src_off, c.size, c.order))
    ELSE Outcome(0, memcpy_page(dst, c.dst_off, src, c.src_off, c.size, junk))

ssdfs_memset_page(debug, c, dst) ==
    IF debug /\ RangeExceeded(c.dst_off, c.size, c.dst_size) THEN Refused(dst)
    ELSE Outcome(0, memset_page(dst, c.dst_off, c.value, c.size))

ssdfs_memzero_page(debug, c, dst) ==
    IF debug /\ RangeExceeded(c.dst_off, c.size, c.dst_size) THEN Refused(dst)
    ELSE Outcome(0, memzero_page(dst, c.dst_off, c.size))

CopyFns == {"ssdfs_memcpy", "ssdfs_memcpy_page", "ssdfs_memcpy_from_page",
            "ssdfs_memcpy_to_page"}

MoveFns == {"ssdfs_memmove", "ssdfs_memmove_page"}

FillFns == {"ssdfs_memset_page", "ssdfs_memzero_page"}

\* One call of a primitive in the build with (debug) or without CONFIG_SSDFS_DEBUG.
CallPrimitive(debug, c, dst, src, junk) ==
    CASE c.fn = "ssdfs_memcpy"           -> ssdfs_memcpy(debug, c, dst, src, junk)
      [] c.fn = "ssdfs_memcpy_page"      -> ssdfs_memcpy_page(debug, c, dst, src, junk)
      [] c.fn = "ssdfs_memcpy_from_page" -> ssdfs_memcpy_from_page(debug, c, dst, src, junk)
      [] c.fn = "ssdfs_memcpy_to_page"   -> ssdfs_memcpy_to_page(debug, c, dst, src, junk)
      [] c.fn = "ssdfs_memmove"          -> ssdfs_memmove(debug, c, dst, src, junk)
      [] c.fn = "ssdfs_memmove_page"     -> ssdfs_memmove_page(debug, c, dst, src, junk)
      [] c.fn = "ssdfs_memset_page"      -> ssdfs_memset_page(debug, c, dst)
      [] c.fn = "ssdfs_memzero_page"     -> ssdfs_memzero_page(debug, c, dst)

\* same: source and destination are one object; order: the order the
\* build's memcpy() copies in
NoCall == [fn |-> "none", dst_off |-> U32(0), dst_size |-> U32(0),
           src_off |-> U32(0), src_size |-> U32(0), size |-> U32(0), value |-> 0,
           same |-> FALSE, order |-> "forward"]

NoOutcome == [ret |-> 0, dst |-> DstPattern, wild |-> FALSE]

CopyInit ==
    /\ cp_pc = "idle"
    /\ cp_call = NoCall
    /\ cp_src = SrcPattern
    /\ cp_dst0 = DstPattern
    /\ cp_dbg = NoOutcome
    /\ cp_rel = NoOutcome

\* A caller invokes a copy or move primitive; both builds run on the same input.
CopyCall ==
    /\ cp_pc = "idle"
    /\ \E fn \in CopyFns \cup MoveFns, doff \in U32Inputs, dsize \in U32Inputs,
          soff \in U32Inputs, ssize \in U32Inputs, n \in U32Inputs,
          junk \in ByteInputs :
          LET c == [fn |-> fn, dst_off |-> doff, dst_size |-> dsize,
                    src_off |-> soff, src_size |-> ssize, size |-> n, value |-> 0,
                    same |-> FALSE, order |-> "forward"]
          IN  /\ cp_call' = c
              /\ cp_dbg' = CallPrimitive(TRUE, c, cp_dst0, cp_src, junk)
              /\ cp_rel' = CallPrimitive(FALSE, c, cp_dst0, cp_src, junk)
    /\ cp_pc' = "done"
    /\ UNCHANGED <<cp_src, cp_dst0, pageVars, utilVars, concVars, famVars, tagVars, stepVars>>

\* A caller invokes a fill or zero primitive.
FillCall ==
    /\ cp_pc = "idle"
    /\ \E fn \in FillFns, doff \in U32Inputs, dsize \in U32Inputs,
          n \in U32Inputs, v \in ByteInputs \cup {511} :
          LET c == [fn |-> fn, dst_off |-> doff, dst_size |-> dsize,
                    src_off |-> U32(0), src_size |-> U32(0), size |-> n,
                    value |-> IF fn = "ssdfs_memzero_page" THEN 0 ELSE v,
                    same |-> FALSE, order |-> "forward"]
          IN  /\ cp_call' = c
              /\ cp_dbg' = CallPrimitive(TRUE, c, cp_dst0, cp_src, 0)
              /\ cp_rel' = CallPrimitive(FALSE, c, cp_dst0, cp_src, 0)
    /\ cp_pc' = "done"
    /\ UNCHANGED <<cp_src, cp_dst0, pageVars, utilVars, concVars, famVars, tagVars, stepVars>>

\* A caller moves bytes inside one buffer or one page; the ranges lie inside
\* the object and may overlap.  The two builds run on the same input, each
\* with the copy order of its own memcpy().
MoveWithin ==
    /\ cp_pc = "idle"
    /\ \E fn \in MoveFns, doff \in 0..ObjLen, soff \in 0..ObjLen, n \in 0..ObjLen,
          odbg \in CopyOrders, orel \in CopyOrders :
          LET c == [fn |-> fn, dst_off |-> U32(doff), dst_size |-> U32(ObjLen),
                    src_off |-> U32(soff), src_size |-> U32(ObjLen),
                    size |-> U32(n), value |-> 0, same |-> TRUE, order |-> orel]
          IN  /\ doff + n <= ObjLen
              /\ soff + n <= ObjLen
              /\ cp_call' = c
              /\ cp_dbg' = CallPrimitive(TRUE, [c EXCEPT !.order = odbg],
                                         cp_src, cp_src, 0)
              /\ cp_rel' = CallPrimitive(FALSE, c, cp_src, cp_src, 0)
    /\ cp_pc' = "done"
    /\ UNCHANGED <<cp_src, cp_dst0, pageVars, utilVars, concVars, famVars, tagVars, stepVars>>

\* The caller starts over with fresh objects.
CopyReset ==
    /\ cp_pc = "done"
    /\ cp_pc' = "idle"
    /\ cp_call' = NoCall
    /\ cp_dbg' = NoOutcome
    /\ cp_rel' = NoOutcome
    /\ UNCHANGED <<cp_src, cp_dst0, pageVars, utilVars, concVars, famVars, tagVars, stepVars>>

(***************************************************************************)
(* Checksum record and signature validation.                               *)
(*                                                                         *)
(* The on-disk fields are kept as the little-endian bytes they are stored  *)
(* as; a 32-bit CPU value is a sequence of 32 bits, least significant      *)
(* first.                                                                  *)
(***************************************************************************)
CsumBufLen == 2

\* SSDFS_CRC32 of the metadata check flags (bit 0)
SSDFS_CRC32 == 1

\* SSDFS_SUPER_MAGIC 0x53734466 as <<hi, lo>> halves
SSDFS_SUPER_MAGIC == <<21363, 17510>>

SSDFS_MAJOR_REVISION == 1

SSDFS_MINOR_REVISION == 15

Pow2(n) == 2 ^ n

\* bit i (1 = least significant) of v
BitOf(v, i) == (v \div Pow2(i - 1)) % 2

le16_to_cpu(x) == x[1] + 256 * x[2]

\* __le32 bytes -> u32 <<hi, lo>>
le32_to_cpu(x) == <<x[4] * 256 + x[3], x[2] * 256 + x[1]>>

\* u32 <<hi, lo>> -> the four bytes of the __le32
cpu_to_le32(v) == <<v[2] % 256, v[2] \div 256, v[1] % 256, v[1] \div 256>>

RECURSIVE Xor(_, _)
\* bitwise exclusive or of two naturals
Xor(a, b) ==
    IF a = 0 THEN b
    ELSE IF b = 0 THEN a
    ELSE (((a % 2) + (b % 2)) % 2) + 2 * Xor(a \div 2, b \div 2)

\* the reflected CRC-32 polynomial 0xEDB88320 as <<hi, lo>>
CRCPOLY_LE == <<60856, 33568>>

\* one bit of the table-less crc32_le(): crc = (crc >> 1) ^ ((crc & 1) ? POLY : 0)
CrcShift(c) ==
    LET hi == c[1] \div 2
        lo == (c[2] \div 2) + (c[1] % 2) * 32768
    IN  IF c[2] % 2 = 1
        THEN <<Xor(hi, CRCPOLY_LE[1]), Xor(lo, CRCPOLY_LE[2])>>
        ELSE <<hi, lo>>

\* crc ^= byte, then eight shifts
CrcByte(c, b) ==
    CrcShift(CrcShift(CrcShift(CrcShift(CrcShift(CrcShift(CrcShift(CrcShift(
        <<c[1], Xor(c[2], b)>>))))))))

RECURSIVE crc32(_, _, _)
\* crc32(seed, data, len): crc32_le over the first len bytes of data
crc32(seed, data, len) ==
    IF len = 0 THEN seed
    ELSE CHOOSE v \in {CrcByte(c, data[len]) : c \in {crc32(seed, data, len - 1)}} : TRUE

ssdfs_crc32_le(data, len) == cpu_to_le32(crc32(U32_MAX, data, len))

\* sizeof(struct ssdfs_metadata_check): __le16 bytes, __le16 flags, __le32 csum
RecordLen == 2 + 2 + 4

\* the bytes of a record in memory order
RecordBytes(chk) == chk.bytes \o chk.flags \o chk.csum

\* the record read from the bytes at..at+RecordLen-1 of data
RecordAt(data, at) ==
    [bytes |-> <<data[at], data[at + 1]>>,
     flags |-> <<data[at + 2], data[at + 3]>>,
     csum  |-> <<data[at + 4], data[at + 5], data[at + 6], data[at + 7]>>]

\* check->csum = v: a store through the check pointer.  When the record
\* lies inside the buffer (at > 0) the store changes the buffer as well.
StoreCsum(m, at, v) ==
    [check |-> [m.check EXCEPT !.csum = v],
     buf   |-> IF at = 0 THEN m.buf
               ELSE [i \in 1..Len(m.buf) |->
                        IF i >= at + 4 /\ i <= at + 7 THEN v[i - at - 3]
                        ELSE m.buf[i]]]

\* seeded fault: unknown flags are let through, nothing is stored
ssdfs_calculate_csum_flags_ignored(chk, data, size, at) ==
    LET bytes == le16_to_cpu(chk.bytes)
        flags == le16_to_cpu(chk.flags)
        m0 == [check |-> chk, buf |-> data]
    IN  IF bytes > size
        THEN [ret |-> -EINVAL, check |-> chk, buf |-> data]
        ELSE IF (flags \div SSDFS_CRC32) % 2 = 1
        THEN LET m1 == StoreCsum(m0, at, <<0, 0, 0, 0>>)
                 m2 == StoreCsum(m1, at, ssdfs_crc32_le(m1.buf, bytes))
             IN  [ret |-> 0, check |-> m2.check, buf |-> m2.buf]
        ELSE [ret |-> 0, check |-> chk, buf |-> data]

\* seeded fault: check->csum is not cleared before the CRC is computed
ssdfs_calculate_csum_stale_field(chk, data, size, at) ==
    LET bytes == le16_to_cpu(chk.bytes)
        flags == le16_to_cpu(chk.flags)
        m0 == [check |-> chk, buf |-> data]
    IN  IF bytes > size
        THEN [ret |-> -EINVAL, check |-> chk, buf |-> data]
        ELSE IF (flags \div SSDFS_CRC32) % 2 = 1
        THEN LET m2 == StoreCsum(m0, at, ssdfs_crc32_le(m0.buf, bytes))
             IN  [ret |-> 0, check |-> m2.check, buf |-> m2.buf]
        ELSE [ret |-> -EINVAL, check |-> chk, buf |-> data]

\* ssdfs_calculate_csum(check, buf, buf_size): [ret, check, buf]; at tells
\* where check points
ssdfs_calculate_csum(chk, data, size, at) ==
    LET bytes == le16_to_cpu(chk.bytes)
        flags == le16_to_cpu(chk.flags)
        m0 == [check |-> chk, buf |-> data]
    IN  IF bytes > size
        THEN [ret |-> -EINVAL, check |-> chk, buf |-> data]
        ELSE IF (flags \div SSDFS_CRC32) % 2 = 1
        THEN LET m1 == StoreCsum(m0, at, <<0, 0, 0, 0>>)
                 m2 == StoreCsum(m1, at, ssdfs_crc32_le(m1.buf, bytes))
             IN  [ret |-> 0, check |-> m2.check, buf |-> m2.buf]
        ELSE [ret |-> -EINVAL, check |-> chk, buf |-> data]

\* seeded fault: calc_csum is read after check->csum was restored
is_csum_valid_restored_first(chk, data, size, at) ==
    LET old_csum == chk.csum
        r == ssdfs_calculate_csum(chk, data, size, at)
        restored == StoreCsum(r, at, old_csum)
        calc_csum == restored.check.csum
    IN  IF r.ret # 0
        THEN [ret |-> FALSE, check |-> r.check, buf |-> r.buf]
        ELSE [ret |-> old_csum = calc_csum, check |-> restored.check,
              buf |-> restored.buf]

\* seeded fault: check->csum keeps the recomputed value
is_csum_valid_keeps_calculated(chk, data, size, at) ==
    LET old_csum == chk.csum
        r == ssdfs_calculate_csum(chk, data, size, at)
        calc_csum == r.check.csum
    IN  IF r.ret # 0
        THEN [ret |-> FALSE, check |-> r.check, buf |-> r.buf]
        ELSE [ret |-> old_csum = calc_csum, check |-> r.check, buf |-> r.buf]

\* is_csum_valid(check, buf, buf_size): [ret, check, buf]
is_csum_valid(chk, data, size, at) ==
    LET old_csum == chk.csum
        r == ssdfs_calculate_csum(chk, data, size, at)
        calc_csum == r.check.csum
        restored == StoreCsum(r, at, old_csum)
    IN  IF r.ret # 0
        THEN [ret |-> FALSE, check |-> r.check, buf |-> r.buf]
        ELSE [ret |-> old_csum = calc_csum, check |-> restored.check,
              buf |-> restored.buf]

\* seeded fault: a version is refused only when major and minor are both newer
is_ssdfs_magic_valid_both_newer(magic) ==
    IF le32_to_cpu(magic.common) # SSDFS_SUPER_MAGIC
    THEN FALSE
    ELSE IF magic.major > SSDFS_MAJOR_REVISION /\ magic.minor > SSDFS_MINOR_REVISION
    THEN FALSE
    ELSE TRUE

\* is_ssdfs_magic_valid(magic)
is_ssdfs_magic_valid(magic) ==
    IF le32_to_cpu(magic.common) # SSDFS_SUPER_MAGIC
    THEN FALSE
    ELSE IF magic.major > SSDFS_MAJOR_REVISION \/ magic.minor > SSDFS_MINOR_REVISION
    THEN FALSE
    ELSE TRUE

\* buffer bytes, __le16 fields and stale checksum fields the callers pass
BufBytes == {0, 1, 128, 255}

Le16Inputs == {<<n, 0>> : n \in 0..(CsumBufLen + 1)} \cup {<<0, 1>>}

FlagInputs == {<<0, 0>>, <<1, 0>>, <<2, 0>>, <<3, 0>>, <<0, 1>>}

StaleCsum == <<0, 0, 0, 0>>

GoodMagic == <<102, 68, 115, 83>>

MagicInputs == {GoodMagic, <<83, 115, 68, 102>>, <<103, 68, 115, 83>>,
                <<102, 68, 115, 84>>, <<0, 0, 0, 0>>}

MajorInputs == {0, SSDFS_MAJOR_REVISION, SSDFS_MAJOR_REVISION + 1, 255}

MinorInputs == {0, SSDFS_MINOR_REVISION - 1, SSDFS_MINOR_REVISION,
                SSDFS_MINOR_REVISION + 1, 255}

NoSig == [common |-> <<0, 0, 0, 0>>, major |-> 0, minor |-> 0]

\* byte b with bit k (0..7) inverted
FlipBit(b, k) == IF BitOf(b, k + 1) = 1 THEN b - Pow2(k) ELSE b + Pow2(k)

NoCheck == [bytes |-> <<0, 0>>, flags |-> <<0, 0>>, csum |-> StaleCsum]

\* where a record lies when it is part of the checked buffer: at its start,
\* or behind CsumBufLen bytes of other fields
RecordPlaces == {1, CsumBufLen + 1}

\* the bytes of such a buffer outside the record
OtherFields == {[i \in 1..CsumBufLen |-> 255]}

\* declared lengths of a record inside its buffer: nothing, a part of the
\* record, the record, the whole buffer, more than the buffer
InsideLens == {0, 6, RecordLen, RecordLen + CsumBufLen, RecordLen + CsumBufLen + 1}

\* the flags of such a record: none, SSDFS_CRC32, SSDFS_CRC32 and another
HeaderFlags == {<<0, 0>>, <<1, 0>>, <<3, 0>>}

\* the csum field before the first calculation
StaleFields == {StaleCsum, <<1, 2, 3, 4>>}

UtilInit ==
    /\ ut_pc = "idle"
    /\ buf = [i \in 1..CsumBufLen |-> 0]
    /\ buf_size = 0
    /\ check = NoCheck
    /\ ut_at = 0
    /\ ut_ret = 0
    /\ ut_old = NoCheck
    /\ flipped = 0
    /\ fresh = FALSE
    /\ ut_cov = 0
    /\ sig = NoSig

\* a caller brings a record and a buffer; buf_size never exceeds the buffer
ReadRecord ==
    /\ ut_pc = "idle"
    /\ buf' \in [1..CsumBufLen -> BufBytes]
    /\ buf_size' \in 0..CsumBufLen
    /\ check' \in [bytes : Le16Inputs, flags : FlagInputs, csum : {StaleCsum}]
    /\ ut_at' = 0
    /\ ut_old' = check'
    /\ ut_pc' = "loaded"
    /\ UNCHANGED <<ut_ret, flipped, fresh, ut_cov, sig, pageVars, copyVars, concVars,
                   famVars, tagVars, stepVars>>

\* a caller brings a buffer that holds its own record, as the on-disk
\* headers do
ReadHeader ==
    /\ ut_pc = "idle"
    /\ \E at \in RecordPlaces, other \in OtherFields, n \in InsideLens,
          flags \in HeaderFlags, stale \in StaleFields :
          LET rec == [bytes |-> <<n % 256, n \div 256>>, flags |-> flags,
                      csum |-> stale]
          IN  /\ check' = rec
              /\ ut_at' = at
              /\ buf' = IF at = 1 THEN RecordBytes(rec) \o other
                        ELSE other \o RecordBytes(rec)
    /\ buf_size' \in {6, RecordLen + CsumBufLen}
    /\ ut_old' = check'
    /\ ut_pc' = "loaded"
    /\ UNCHANGED <<ut_ret, flipped, fresh, ut_cov, sig, pageVars, copyVars, concVars,
                   famVars, tagVars, stepVars>>

\* compute_checksum: ssdfs_calculate_csum() on the record and buffer
Calculate ==
    /\ ut_pc \in {"loaded", "calculated", "verified"}
    /\ flipped = 0
    /\ LET r == ssdfs_calculate_csum(check, buf, buf_size, ut_at)
       IN  /\ ut_ret' = r.ret
           /\ check' = r.check
           /\ buf' = r.buf
           /\ fresh' = (r.ret = 0)
           /\ ut_cov' = IF r.ret = 0 THEN le16_to_cpu(check.bytes) ELSE 0
    /\ ut_old' = check
    /\ ut_pc' = "calculated"
    /\ UNCHANGED <<ut_at, buf_size, flipped, sig, pageVars, copyVars, concVars,
                   famVars, tagVars, stepVars>>

\* one bit of the buffer is inverted behind the caller's back; a record
\* inside the buffer changes with it
Corrupt ==
    /\ ut_pc = "calculated"
    /\ flipped = 0
    /\ \E i \in 1..Len(buf), k \in 0..7 :
          /\ buf' = [buf EXCEPT ![i] = FlipBit(buf[i], k)]
          /\ flipped' = i
    /\ check' = IF ut_at = 0 THEN check ELSE RecordAt(buf', ut_at)
    /\ UNCHANGED <<ut_pc, ut_at, buf_size, ut_ret, ut_old, fresh, ut_cov, sig,
                   pageVars, copyVars, concVars, famVars, tagVars, stepVars>>

\* verify_checksum: is_csum_valid() on the record and buffer
Verify ==
    /\ ut_pc \in {"loaded", "calculated"}
    /\ LET r == is_csum_valid(check, buf, buf_size, ut_at)
       IN  /\ ut_ret' = r.ret
           /\ check' = r.check
           /\ buf' = r.buf
    /\ ut_old' = check
    /\ ut_pc' = "verified"
    /\ UNCHANGED <<ut_at, buf_size, flipped, fresh, ut_cov, sig, pageVars, copyVars,
                   concVars, famVars, tagVars, stepVars>>

\* validate_identity: is_ssdfs_magic_valid() on a signature read from the volume
ValidateMagic ==
    /\ ut_pc = "idle"
    /\ \E m \in MagicInputs, major \in MajorInputs, minor \in MinorInputs :
          LET s == [common |-> m, major |-> major, minor |-> minor]
          IN  /\ sig' = s
              /\ ut_ret' = is_ssdfs_magic_valid(s)
    /\ ut_pc' = "magic"
    /\ UNCHANGED <<check, ut_at, buf, buf_size, ut_old, flipped, fresh, ut_cov,
                   pageVars, copyVars, concVars, famVars, tagVars, stepVars>>

(***************************************************************************)
(* Page lifecycle and leak accounting.                                     *)
(*                                                                         *)
(* The functions of ssdfs_inline.h are operators on a memory state s:      *)
(*   s.ref, s.live, s.lck   per page                                       *)
(*   s.alloc   ssdfs_allocated_pages                                       *)
(*   s.leaks   ssdfs_<name>_page_leaks                                     *)
(*   s.warn    SSDFS_WARN was emitted                                      *)
(* Page 0 is the NULL pointer.                                             *)
(***************************************************************************)
MaxPages == 3

PageIds == 1..MaxPages

Variants == {"plain", "checker", "allocator"}

Mem == [ref |-> page_ref, live |-> page_live, lck |-> page_locked,
        alloc |-> ssdfs_allocated_pages,
        leaks |-> name_page_leaks, warn |-> FALSE]

\* the page the allocator would hand out next, 0 when it has none
NextFree(s) == IF \E p \in PageIds : ~s.live[p]
               THEN CHOOSE p \in PageIds : ~s.live[p] /\ \A q \in PageIds : ~s.live[q] => p <= q
               ELSE 0

\* alloc_page(gfp_mask): page p leaves the allocator with one reference
alloc_page(s, p) ==
    [s EXCEPT !.live[p] = TRUE, !.ref[p] = 1, !.lck[p] = FALSE]

\* the bytes of a page fresh from alloc_page(gfp_mask) are all zero: always
\* with __GFP_ZERO, otherwise only if the stale contents happen to be
PageZeroed(gfp_zero, stale) == IF gfp_zero THEN TRUE ELSE stale

get_page(s, p) == [s EXCEPT !.ref[p] = @ + 1]

\* put_page(): drops a reference and frees the page when it was the last
put_page(s, p) ==
    [s EXCEPT !.ref[p] = @ - 1,
              !.live[p] = IF s.ref[p] - 1 = 0 THEN FALSE ELSE @]

\* __free_pages(page, 0): put_page_testzero(), then free
free_pages(s, p) ==
    [s EXCEPT !.ref[p] = @ - 1,
              !.live[p] = IF s.ref[p] - 1 = 0 THEN FALSE ELSE @]

ssdfs_get_page(s, p) == get_page(s, p)

ssdfs_put_page(s, p) ==
    LET s1 == put_page(s, p)
    IN  IF s1.ref[p] < 1 THEN [s1 EXCEPT !.warn = TRUE] ELSE s1

\* seeded fault: ssdfs_get_page() is left out after alloc_page()
ssdfs_alloc_page_no_get(acct, s, p, gfp_zero, stale) ==
    IF p = 0
    THEN [s |-> s, page |-> 0, err |-> -ENOMEM, zeroed |-> FALSE]
    ELSE LET s1 == alloc_page(s, p)
             s3 == IF acct THEN [s1 EXCEPT !.alloc = @ + 1] ELSE s1
         IN  [s |-> s3, page |-> p, err |-> 0,
              zeroed |-> PageZeroed(gfp_zero, stale)]

\* ssdfs_alloc_page(gfp_mask); p is what alloc_page() returns (0: no memory)
ssdfs_alloc_page(acct, s, p, gfp_zero, stale) ==
    IF p = 0
    THEN [s |-> s, page |-> 0, err |-> -ENOMEM, zeroed |-> FALSE]
    ELSE LET s1 == alloc_page(s, p)
             s2 == ssdfs_get_page(s1, p)
             s3 == IF acct THEN [s2 EXCEPT !.alloc = @ + 1] ELSE s2
         IN  [s |-> s3, page |-> p, err |-> 0,
              zeroed |-> PageZeroed(gfp_zero, stale)]

\* seeded fault: the final __free_pages() is left out
ssdfs_free_page_put_only(acct, s, p) ==
    IF p = 0 THEN s
    ELSE LET s1 == IF acct /\ s.lck[p] THEN [s EXCEPT !.warn = TRUE] ELSE s
             s2 == ssdfs_put_page(s1, p)
             s3 == IF s2.ref[p] <= 0 \/ s2.ref[p] > 1
                   THEN [s2 EXCEPT !.warn = TRUE] ELSE s2
         IN  IF acct THEN [s3 EXCEPT !.alloc = @ - 1] ELSE s3

ssdfs_free_page(acct, s, p) ==
    IF p = 0 THEN s
    ELSE LET s1 == IF acct /\ s.lck[p] THEN [s EXCEPT !.warn = TRUE] ELSE s
             s2 == ssdfs_put_page(s1, p)
             s3 == IF s2.ref[p] <= 0 \/ s2.ref[p] > 1
                   THEN [s2 EXCEPT !.warn = TRUE] ELSE s2
             s4 == IF acct THEN [s3 EXCEPT !.alloc = @ - 1] ELSE s3
         IN  free_pages(s4, p)

\* seeded fault: the subsystem counter is raised whatever ssdfs_alloc_page()
\* returned
checker_alloc_page_counts_always(acct, s, p, gfp_zero, stale) ==
    LET r == ssdfs_alloc_page(acct, s, p, gfp_zero, stale)
    IN  [r EXCEPT !.s.leaks = @ + 1]

\* SSDFS_MEMORY_LEAKS_CHECKER_FNS(name): ssdfs_<name>_alloc_page()
checker_alloc_page(acct, s, p, gfp_zero, stale) ==
    LET r == ssdfs_alloc_page(acct, s, p, gfp_zero, stale)
    IN  IF r.err = 0 /\ r.page # 0
        THEN [r EXCEPT !.s.leaks = @ + 1]
        ELSE r

\* SSDFS_MEMORY_ALLOCATOR_FNS(name): ssdfs_<name>_alloc_page()
allocator_alloc_page(acct, s, p, gfp_zero, stale) ==
    ssdfs_alloc_page(acct, s, p, gfp_zero, stale)

\* seeded fault: the subsystem counter is not lowered
checker_free_page_counts_never(acct, s, p) == ssdfs_free_page(acct, s, p)

\* SSDFS_MEMORY_LEAKS_CHECKER_FNS(name): ssdfs_<name>_free_page()
checker_free_page(acct, s, p) ==
    LET s1 == IF p # 0 THEN [s EXCEPT !.leaks = @ - 1] ELSE s
    IN  ssdfs_free_page(acct, s1, p)

\* SSDFS_MEMORY_ALLOCATOR_FNS(name): ssdfs_<name>_free_page()
allocator_free_page(acct, s, p) == ssdfs_free_page(acct, s, p)

\* ssdfs_account_page(page) and ssdfs_forget_page(page) do nothing
ssdfs_account_page(s, p) == s

ssdfs_forget_page(s, p) == s

\* SSDFS_MEMORY_LEAKS_CHECKER_FNS(name): ssdfs_<name>_account_page() counts
\* a page that was allocated elsewhere
checker_account_page(s, p) == IF p # 0 THEN [s EXCEPT !.leaks = @ + 1] ELSE s

\* SSDFS_MEMORY_LEAKS_CHECKER_FNS(name): ssdfs_<name>_forget_page()
checker_forget_page(s, p) == IF p # 0 THEN [s EXCEPT !.leaks = @ - 1] ELSE s

\* SSDFS_MEMORY_ALLOCATOR_FNS(name): ssdfs_<name>_account_page()
allocator_account_page(s, p) == ssdfs_account_page(s, p)

\* SSDFS_MEMORY_ALLOCATOR_FNS(name): ssdfs_<name>_forget_page()
allocator_forget_page(s, p) == ssdfs_forget_page(s, p)

(***************************************************************************)
(* struct pagevec of the kernel, PAGEVEC_SIZE scaled down to a bound.      *)
(***************************************************************************)
PAGEVEC_SIZE == MaxPages - 1

pagevec_count(pv) == pv.nr

pagevec_space(pv) == PAGEVEC_SIZE - pv.nr

\* pagevec_add(): pvec->pages[pvec->nr++] = page
pagevec_add(pv, p) == [nr |-> pv.nr + 1, pages |-> [pv.pages EXCEPT ![pv.nr + 1] = p]]

\* pagevec_reinit(): pvec->nr = 0
pagevec_reinit(pv) == [pv EXCEPT !.nr = 0]

EmptyPvec == [nr |-> 0, pages |-> [i \in 1..PAGEVEC_SIZE |-> 0]]

\* seeded fault: the page is allocated before the space check and is not
\* given back when the pagevec turns out to be full
ssdfs_add_pagevec_page_alloc_first(acct, s, pv, p) ==
    LET r == ssdfs_alloc_page(acct, s, p, TRUE, FALSE)
    IN  IF r.err # 0 \/ r.page = 0
        THEN [s |-> r.s, pv |-> pv, page |-> 0,
              err |-> IF r.page = 0 /\ r.err = 0 THEN -ENOMEM ELSE r.err]
        ELSE IF pagevec_space(pv) = 0
        THEN [s |-> r.s, pv |-> pv, page |-> 0, err |-> -E2BIG]
        ELSE [s |-> r.s, pv |-> pagevec_add(pv, r.page), page |-> r.page,
              err |-> 0]

\* ssdfs_add_pagevec_page(pvec); p is what alloc_page() would return
ssdfs_add_pagevec_page(acct, s, pv, p) ==
    IF pagevec_space(pv) = 0
    THEN [s |-> s, pv |-> pv, page |-> 0, err |-> -E2BIG]
    ELSE LET r == ssdfs_alloc_page(acct, s, p, TRUE, FALSE)
         IN  IF r.err # 0 \/ r.page = 0
             THEN [s |-> r.s, pv |-> pv, page |-> 0,
                   err |-> IF r.page = 0 /\ r.err = 0 THEN -ENOMEM ELSE r.err]
             ELSE [s |-> r.s, pv |-> pagevec_add(pv, r.page), page |-> r.page,
                   err |-> 0]

RECURSIVE ReleaseLoop(_, _, _, _)
\* the loop of ssdfs_pagevec_release() from slot i on: [s, pv]
ReleaseLoop(acct, s, pv, i) ==
    IF i > pagevec_count(pv)
    THEN [s |-> s, pv |-> pv]
    ELSE IF pv.pages[i] = 0
    THEN ReleaseLoop(acct, s, pv, i + 1)
    ELSE ReleaseLoop(acct, ssdfs_free_page(acct, s, pv.pages[i]),
                     [pv EXCEPT !.pages[i] = 0], i + 1)

\* seeded fault: the slots are not emptied and pagevec_reinit() is left out
ssdfs_pagevec_release_no_reinit(acct, s, pv) ==
    LET r == ReleaseLoop(acct, s, pv, 1)
    IN  [s |-> r.s, pv |-> pv]

ssdfs_pagevec_release(acct, s, pv) ==
    LET r == ReleaseLoop(acct, s, pv, 1)
    IN  [s |-> r.s, pv |-> pagevec_reinit(r.pv)]

\* seeded fault: the subsystem counter is not raised for a page that went
\* into the pagevec
checker_add_pagevec_page_uncounted(acct, s, pv, p) ==
    ssdfs_add_pagevec_page(acct, s, pv, p)

\* SSDFS_MEMORY_LEAKS_CHECKER_FNS(name): ssdfs_<name>_add_pagevec_page()
checker_add_pagevec_page(acct, s, pv, p) ==
    LET r == ssdfs_add_pagevec_page(acct, s, pv, p)
    IN  IF r.err = 0 /\ r.page # 0
        THEN [r EXCEPT !.s.leaks = @ + 1]
        ELSE r

\* SSDFS_MEMORY_ALLOCATOR_FNS(name): ssdfs_<name>_add_pagevec_page()
allocator_add_pagevec_page(acct, s, pv, p) == ssdfs_add_pagevec_page(acct, s, pv, p)

\* seeded fault: the counter is lowered and the pagevec is left as it was
checker_pagevec_release_counts_only(acct, s, pv) ==
    LET n == Cardinality({i \in 1..pagevec_count(pv) : pv.pages[i] # 0})
    IN  [s |-> [s EXCEPT !.leaks = @ - n], pv |-> pv]

\* SSDFS_MEMORY_LEAKS_CHECKER_FNS(name): ssdfs_<name>_pagevec_release()
checker_pagevec_release(acct, s, pv) ==
    LET n == Cardinality({i \in 1..pagevec_count(pv) : pv.pages[i] # 0})
    IN  ssdfs_pagevec_release(acct, [s EXCEPT !.leaks = @ - n], pv)

\* SSDFS_MEMORY_ALLOCATOR_FNS(name): ssdfs_<name>_pagevec_release()
allocator_pagevec_release(acct, s, pv) == ssdfs_pagevec_release(acct, s, pv)

\* the alloc_page / free_page / add_pagevec_page / pagevec_release of a family
AllocPageOf(v, acct, s, p, gfp_zero, stale) ==
    CASE v = "plain"     -> ssdfs_alloc_page(acct, s, p, gfp_zero, stale)
      [] v = "checker"   -> checker_alloc_page(acct, s, p, gfp_zero, stale)
      [] v = "allocator" -> allocator_alloc_page(acct, s, p, gfp_zero, stale)

FreePageOf(v, acct, s, p) ==
    CASE v = "plain"     -> ssdfs_free_page(acct, s, p)
      [] v = "checker"   -> checker_free_page(acct, s, p)
      [] v = "allocator" -> allocator_free_page(acct, s, p)

AddPagevecPageOf(v, acct, s, pv, p) ==
    CASE v = "plain"     -> ssdfs_add_pagevec_page(acct, s, pv, p)
      [] v = "checker"   -> checker_add_pagevec_page(acct, s, pv, p)
      [] v = "allocator" -> allocator_add_pagevec_page(acct, s, pv, p)

PagevecReleaseOf(v, acct, s, pv) ==
    CASE v = "plain"     -> ssdfs_pagevec_release(acct, s, pv)
      [] v = "checker"   -> checker_pagevec_release(acct, s, pv)
      [] v = "allocator" -> allocator_pagevec_release(acct, s, pv)

AccountPageOf(v, s, p) ==
    CASE v = "plain"     -> ssdfs_account_page(s, p)
      [] v = "checker"   -> checker_account_page(s, p)
      [] v = "allocator" -> allocator_account_page(s, p)

ForgetPageOf(v, s, p) ==
    CASE v = "plain"     -> ssdfs_forget_page(s, p)
      [] v = "checker"   -> checker_forget_page(s, p)
      [] v = "allocator" -> allocator_forget_page(s, p)

(***************************************************************************)
(* struct ssdfs_page_vector.  Only its declarations are in page_vector.h;  *)
(* the operations follow the documented contract of the page vector.       *)
(***************************************************************************)
\* a full vector leaves the allocator a page to hand out
MaxCap == MaxPages - 1

NoArray == [created |-> FALSE, count |-> 0, capacity |-> 0, pages |-> <<>>]

\* the value a u8 parameter receives
U8(n) == n % 256

\* the capacities callers ask for: none, the small ones and one that does
\* not fit a u8
CapacityInputs == (0..MaxCap) \cup {256}

\* seeded fault: capacity 0 is accepted
ssdfs_page_vector_create_accepts_zero(arr, capacity, nomem) ==
    IF capacity > 255
    THEN [arr |-> arr, err |-> -EINVAL]
    ELSE IF nomem
    THEN [arr |-> arr, err |-> -ENOMEM]
    ELSE [arr |-> [created |-> TRUE, count |-> 0, capacity |-> capacity,
                   pages |-> [i \in 1..capacity |-> 0]],
          err |-> 0]

\* create(capacity): capacity must be 1..255; nomem: the slot array cannot
\* be allocated
ssdfs_page_vector_create(arr, capacity, nomem) ==
    IF capacity < 1 \/ capacity > 255
    THEN [arr |-> arr, err |-> -EINVAL]
    ELSE IF nomem
    THEN [arr |-> arr, err |-> -ENOMEM]
    ELSE [arr |-> [created |-> TRUE, count |-> 0, capacity |-> capacity,
                   pages |-> [i \in 1..capacity |-> 0]],
          err |-> 0]

\* init(): count becomes 0, the slots are left as they are
ssdfs_page_vector_init(arr) == [arr EXCEPT !.count = 0]

\* reinit(): count becomes 0 and every slot is zero-filled
ssdfs_page_vector_reinit(arr) ==
    [arr EXCEPT !.count = 0, !.pages = [i \in 1..arr.capacity |-> 0]]

ssdfs_page_vector_count(arr) == arr.count

ssdfs_page_vector_space(arr) == arr.capacity - arr.count

\* seeded fault: the capacity check is off by one
ssdfs_page_vector_add_off_by_one(arr, p) ==
    IF arr.count > arr.capacity
    THEN [arr |-> arr, err |-> -E2BIG]
    ELSE [arr |-> [arr EXCEPT !.pages[arr.count + 1] = p, !.count = @ + 1],
          err |-> 0]

\* seeded fault: the handle goes into the first empty slot, if there is one
ssdfs_page_vector_add_first_empty(arr, p) ==
    IF arr.count >= arr.capacity
    THEN [arr |-> arr, err |-> -E2BIG]
    ELSE LET empty == {k \in 1..arr.capacity : arr.pages[k] = 0}
             i == IF empty = {} THEN arr.count + 1
                  ELSE CHOOSE k \in empty : \A j \in empty : k <= j
         IN  [arr |-> [arr EXCEPT !.pages[i] = p, !.count = @ + 1], err |-> 0]

\* add(handle): slot `count` takes the handle, then count grows
ssdfs_page_vector_add(arr, p) ==
    IF arr.count >= arr.capacity
    THEN [arr |-> arr, err |-> -E2BIG]
    ELSE [arr |-> [arr EXCEPT !.pages[arr.count + 1] = p, !.count = @ + 1],
          err |-> 0]

\* allocate_page(): acquire a zeroed page, add it, free it again when add fails
ssdfs_page_vector_allocate(v, acct, s, arr, p) ==
    LET r == AllocPageOf(v, acct, s, p, TRUE, FALSE)
    IN  IF r.err # 0
        THEN [s |-> r.s, arr |-> arr, page |-> 0, err |-> r.err]
        ELSE LET a == ssdfs_page_vector_add(arr, r.page)
             IN  IF a.err # 0
                 THEN [s |-> FreePageOf(v, acct, r.s, r.page), arr |-> arr,
                       page |-> 0, err |-> a.err]
                 ELSE [s |-> r.s, arr |-> a.arr, page |-> r.page, err |-> 0]

\* seeded fault: count drops on every successful remove
ssdfs_page_vector_remove_always_decrements(arr, index) ==
    IF index >= arr.count
    THEN [arr |-> arr, page |-> 0, err |-> -ENOENT]
    ELSE [arr |-> [arr EXCEPT !.pages[index + 1] = 0, !.count = @ - 1],
          page |-> arr.pages[index + 1], err |-> 0]

\* remove(index), index counted from 0: the slot is emptied, nothing is
\* shifted, count drops only when the slot was the last occupied one
ssdfs_page_vector_remove(arr, index) ==
    IF index >= arr.count
    THEN [arr |-> arr, page |-> 0, err |-> -ENOENT]
    ELSE [arr |-> [arr EXCEPT !.pages[index + 1] = 0,
                              !.count = IF index = arr.count - 1 THEN @ - 1 ELSE @],
          page |-> arr.pages[index + 1], err |-> 0]

RECURSIVE VectorReleaseLoop(_, _, _, _, _)
VectorReleaseLoop(v, acct, s, arr, i) ==
    IF i > arr.count
    THEN [s |-> s, arr |-> arr]
    ELSE IF arr.pages[i] = 0
    THEN VectorReleaseLoop(v, acct, s, arr, i + 1)
    ELSE VectorReleaseLoop(v, acct, FreePageOf(v, acct, s, arr.pages[i]),
                           [arr EXCEPT !.pages[i] = 0], i + 1)

\* seeded fault: the handles are freed and count reset, the slots keep them
ssdfs_page_vector_release_keeps_slots(v, acct, s, arr) ==
    LET r == VectorReleaseLoop(v, acct, s, arr, 1)
    IN  [s |-> r.s, arr |-> [arr EXCEPT !.count = 0]]

\* release(): every handle in [0, count) is freed, the slots are emptied,
\* count becomes 0
ssdfs_page_vector_release(v, acct, s, arr) ==
    LET r == VectorReleaseLoop(v, acct, s, arr, 1)
    IN  [s |-> r.s, arr |-> [r.arr EXCEPT !.count = 0]]

(***************************************************************************)
(* The operations callers perform, one action each.                        *)
(***************************************************************************)
InPvec(p) == \E i \in 1..pvec.nr : pvec.pages[i] = p

InArray(p) == \E i \in 1..array.count : array.pages[i] = p

\* handles in the hands of a caller, outside every container
CallerHeld == {p \in PageIds : page_held[p] /\ ~InPvec(p) /\ ~InArray(p)}

NoOp == [name |-> "none", ret |-> 0, page |-> 0, arg |-> 0, zeroed |-> FALSE,
         freed |-> 0, warn |-> FALSE, before |-> NoArray]

\* the record of an operation that left the memory state s: its return
\* value, the page it returned or was given (0: none), its argument where it
\* has one, how many pages it returned to the allocator, whether it warned;
\* `before` is the page vector a remove found, kept by the add that gives
\* the removed handle straight back
Done(name, ret, page, arg, s) ==
    [name |-> name, ret |-> ret, page |-> page, arg |-> arg, zeroed |-> FALSE,
     freed |-> Cardinality({p \in PageIds : page_live[p] /\ ~s.live[p]}),
     warn |-> s.warn, before |-> NoArray]

\* the memory state s becomes the state of the system
Commit(s) ==
    /\ page_ref' = s.ref
    /\ page_live' = s.live
    /\ page_locked' = s.lck
    /\ ssdfs_allocated_pages' = s.alloc
    /\ name_page_leaks' = s.leaks

PageInit ==
    /\ accounting \in BOOLEAN
    /\ variant \in Variants
    /\ page_held = [p \in PageIds |-> FALSE]
    /\ page_ref = [p \in PageIds |-> 0]
    /\ page_live = [p \in PageIds |-> FALSE]
    /\ page_locked = [p \in PageIds |-> FALSE]
    /\ ssdfs_allocated_pages = 0
    /\ name_page_leaks = 0
    /\ peer_page_leaks = 0
    /\ lock_call = [p \in PageIds |-> [pc |-> "none", warn |-> FALSE]]
    /\ unlock_call = [p \in PageIds |-> [pc |-> "none", warn |-> FALSE]]
    /\ pvec = EmptyPvec
    /\ array = NoArray
    /\ op = NoOp
    /\ streak = 0

\* acquire_page: the family's alloc_page(gfp_mask); a caller deals with one
\* loose handle at a time
AllocPage ==
    \E nomem \in BOOLEAN, gfp_zero \in BOOLEAN, stale \in BOOLEAN :
        CallerHeld = {} /\
        LET p == IF nomem THEN 0 ELSE NextFree(Mem)
            r == AllocPageOf(variant, accounting, Mem, p, gfp_zero, stale)
        IN  /\ Commit(r.s)
            /\ page_held' = IF r.page # 0 THEN [page_held EXCEPT ![r.page] = TRUE]
                            ELSE page_held
            /\ op' = [Done("alloc_page", r.err, r.page,
                            IF gfp_zero THEN 1 ELSE 0, r.s)
                          EXCEPT !.zeroed = r.zeroed]
            /\ streak' = 0
            /\ UNCHANGED <<accounting, variant, pvec, array,
                       copyVars, utilVars, concVars, famVars, tagVars, stepVars>>

\* retain: ssdfs_get_page() on an owned handle nobody has retained yet
GetPage ==
    \E p \in PageIds :
        /\ page_held[p]
        /\ page_ref[p] = 2
        /\ LET s == ssdfs_get_page(Mem, p)
           IN  /\ Commit(s)
               /\ op' = Done("get_page", 0, p, 0, s)
        /\ streak' = 0
        /\ UNCHANGED <<accounting, variant, page_held, pvec, array,
                       copyVars, utilVars, concVars, famVars, tagVars, stepVars>>

\* release_ref: ssdfs_put_page() gives back a reference taken by retain
PutPage ==
    \E p \in PageIds :
        /\ page_live[p]
        /\ page_ref[p] > (IF page_held[p] THEN 2 ELSE 0)
        /\ LET s == ssdfs_put_page(Mem, p)
           IN  /\ Commit(s)
               /\ op' = Done("put_page", 0, p, 0, s)
        /\ streak' = 0
        /\ UNCHANGED <<accounting, variant, page_held, pvec, array,
                       copyVars, utilVars, concVars, famVars, tagVars, stepVars>>

\* free_page: the family's free_page() on a handle the caller owns and has
\* not left locked
FreePage ==
    \E p \in CallerHeld :
        /\ ~page_locked[p]
        /\ LET s == FreePageOf(variant, accounting, Mem, p)
           IN  /\ Commit(s)
               /\ op' = Done("free_page", 0, p, 0, s)
        /\ page_held' = [page_held EXCEPT ![p] = FALSE]
        /\ streak' = 0
        /\ UNCHANGED <<accounting, variant, pvec, array,
                       copyVars, utilVars, concVars, famVars, tagVars, stepVars>>

\* the family's add_pagevec_page(pvec)
AddPagevecPage ==
    \E nomem \in BOOLEAN :
        LET p == IF nomem THEN 0 ELSE NextFree(Mem)
            r == AddPagevecPageOf(variant, accounting, Mem, pvec, p)
        IN  /\ Commit(r.s)
            /\ pvec' = r.pv
            /\ page_held' = IF r.page # 0 THEN [page_held EXCEPT ![r.page] = TRUE]
                            ELSE page_held
            /\ op' = Done("add_pagevec_page", r.err, r.page, 0, r.s)
            /\ streak' = 0
            /\ UNCHANGED <<accounting, variant, array,
                       copyVars, utilVars, concVars, famVars, tagVars, stepVars>>

\* the family's pagevec_release(pvec) on a pagevec whose pages are not locked
PagevecRelease ==
    LET r == PagevecReleaseOf(variant, accounting, Mem, pvec)
    IN  /\ \A p \in PageIds : InPvec(p) => ~page_locked[p]
        /\ Commit(r.s)
        /\ pvec' = r.pv
        /\ page_held' = [p \in PageIds |-> page_held[p] /\ ~InPvec(p)]
        /\ op' = Done("pagevec_release", 0, 0, pagevec_count(pvec), r.s)
        /\ streak' = IF op.name = "pagevec_release" THEN 2 ELSE 1
        /\ UNCHANGED <<accounting, variant, array,
                       copyVars, utilVars, concVars, famVars, tagVars, stepVars>>

\* create(capacity)
VectorCreate ==
    \E requested \in CapacityInputs, nomem \in BOOLEAN :
        /\ ~array.created
        /\ LET capacity == U8(requested)
               r == ssdfs_page_vector_create(array, capacity, nomem)
           IN  /\ array' = r.arr
               /\ op' = Done("create", r.err, 0, capacity, Mem)
        /\ streak' = 0
        /\ UNCHANGED <<accounting, variant, page_held, page_ref, page_live,
                       page_locked, ssdfs_allocated_pages,
                       name_page_leaks, pvec,
                       copyVars, utilVars, concVars, famVars, tagVars, stepVars>>

\* add(handle) of a handle the caller owns
VectorAdd ==
    \E p \in CallerHeld :
        /\ array.created
        /\ LET r == ssdfs_page_vector_add(array, p)
           IN  /\ array' = r.arr
               /\ op' = [Done("add", r.err, p, 0, Mem) EXCEPT
                            !.before = IF op.name = "remove" /\ op.page = p
                                       THEN op.before ELSE NoArray]
        /\ streak' = 0
        /\ UNCHANGED <<accounting, variant, page_held, page_ref, page_live,
                       page_locked, ssdfs_allocated_pages,
                       name_page_leaks, pvec,
                       copyVars, utilVars, concVars, famVars, tagVars, stepVars>>

\* allocate_page()
VectorAllocate ==
    \E nomem \in BOOLEAN :
        /\ array.created
        /\ LET p == IF nomem THEN 0 ELSE NextFree(Mem)
               r == ssdfs_page_vector_allocate(variant, accounting, Mem, array, p)
           IN  /\ Commit(r.s)
               /\ array' = r.arr
               /\ page_held' = IF r.page # 0
                               THEN [page_held EXCEPT ![r.page] = TRUE]
                               ELSE page_held
               /\ op' = Done("allocate", r.err, r.page, 0, r.s)
        /\ streak' = 0
        /\ UNCHANGED <<accounting, variant, pvec,
                       copyVars, utilVars, concVars, famVars, tagVars, stepVars>>

\* init(), on whatever the slots hold: a handle the vector still owned is
\* owned by nobody afterwards, its page stays allocated
VectorInit ==
    /\ array.created
    /\ array' = ssdfs_page_vector_init(array)
    /\ page_held' = [p \in PageIds |-> page_held[p] /\ ~InArray(p)]
    /\ op' = Done("init", 0, 0, ssdfs_page_vector_count(array), Mem)
    /\ streak' = 0
    /\ UNCHANGED <<accounting, variant, page_ref, page_live,
                   page_locked, ssdfs_allocated_pages,
                   name_page_leaks, pvec,
                   copyVars, utilVars, concVars, famVars, tagVars, stepVars>>

\* reinit(), on whatever the slots hold: a handle the vector still owned is
\* owned by nobody afterwards, its page stays allocated
VectorReinit ==
    /\ array.created
    /\ array' = ssdfs_page_vector_reinit(array)
    /\ page_held' = [p \in PageIds |-> page_held[p] /\ ~InArray(p)]
    /\ op' = Done("reinit", 0, 0, ssdfs_page_vector_count(array), Mem)
    /\ streak' = 0
    /\ UNCHANGED <<accounting, variant, page_ref, page_live,
                   page_locked, ssdfs_allocated_pages,
                   name_page_leaks, pvec,
                   copyVars, utilVars, concVars, famVars, tagVars, stepVars>>

\* remove(index)
VectorRemove ==
    \E index \in 0..MaxCap :
        /\ array.created
        /\ CallerHeld = {}
        /\ LET r == ssdfs_page_vector_remove(array, index)
           IN  /\ array' = r.arr
               /\ op' = [Done("remove", r.err, r.page, index, Mem) EXCEPT
                            !.before = array]
        /\ streak' = 0
        /\ UNCHANGED <<accounting, variant, page_held, page_ref, page_live,
                       page_locked, ssdfs_allocated_pages,
                       name_page_leaks, pvec,
                       copyVars, utilVars, concVars, famVars, tagVars, stepVars>>

\* release()
VectorRelease ==
    /\ array.created
    /\ LET r == ssdfs_page_vector_release(variant, accounting, Mem, array)
       IN  /\ Commit(r.s)
           /\ array' = r.arr
           /\ op' = Done("release", 0, 0, ssdfs_page_vector_count(array), r.s)
    /\ page_held' = [p \in PageIds |-> page_held[p] /\ ~InArray(p)]
    /\ streak' = IF op.name = "release" THEN 2 ELSE 1
    /\ UNCHANGED <<accounting, variant, pvec,
                       copyVars, utilVars, concVars, famVars, tagVars, stepVars>>

(***************************************************************************)
(* Concurrent execution contexts.                                          *)
(*                                                                         *)
(* Every context runs the plain functions of ssdfs_inline.h; a step is one *)
(* access to shared memory: the page flag, a counter, the allocator.       *)
(* A context owns at most one page (the one it allocated) and locks any    *)
(* allocated page; a page is freed by its owner once nobody uses it.       *)
(***************************************************************************)
NumCtx == 2

Ctx == 1..NumCtx

\* lock_page() returns only once it has set the PG_locked flag it found clear
trylock_page_blind(lck, p) == TRUE

trylock_page(lck, p) == ~lck[p]

\* seeded fault: PG_locked stays set
unlock_page_keeps_flag(lck, p) == lck

\* unlock_page(): clears PG_locked
unlock_page(lck, p) == [lck EXCEPT ![p] = FALSE]

atomic64_read(v) == v

atomic64_inc(v) == v + 1

atomic64_dec(v) == v - 1

\* seeded fault: the counter is written back from the value read for the
\* warning instead of being incremented atomically
ssdfs_lock_page_count_racy(v, seen) == seen + 1

\* ssdfs_lock_page(): atomic64_inc(&ssdfs_locked_pages) after the value was
\* read (seen) for the warning
ssdfs_lock_page_count(v, seen) == atomic64_inc(v)

\* seeded fault: the counter is not lowered once it has reached zero
ssdfs_unlock_page_stops_at_zero(v) == IF v > 0 THEN atomic64_dec(v) ELSE v

\* seeded fault: an unlocked page stays counted
ssdfs_unlock_page_uncounted(v) == v

\* ssdfs_unlock_page(): atomic64_dec(&ssdfs_locked_pages) after unlock_page()
ssdfs_unlock_page_count(v) == atomic64_dec(v)

\* contexts that are past lock_page() and before unlock_page() on page p
Holders(p) == {c \in Ctx : cx_target[c] = p
                           /\ cx_pc[c] \in {"lock_read", "lock_count", "holding"}}

\* page p is in use by a context other than c
UsedByOther(c, p) == \E d \in Ctx \ {c} : cx_target[d] = p \/ cx_page[d] = p

ConcInit ==
    /\ cx_pc = [c \in Ctx |-> "idle"]
    /\ cx_page = [c \in Ctx |-> 0]
    /\ cx_target = [c \in Ctx |-> 0]
    /\ cx_seen = [c \in Ctx |-> 0]
    /\ ssdfs_locked_pages = 0
    /\ cx_warn = FALSE

ConcFrame == UNCHANGED <<accounting, variant, name_page_leaks, pvec, array, op,
                         streak, copyVars, utilVars, famVars, tagVars, stepVars>>

\* ssdfs_alloc_page(): alloc_page() and ssdfs_get_page() on the new page
CxAlloc(c) ==
    /\ cx_pc[c] = "idle"
    /\ cx_page[c] = 0
    /\ cx_target[c] = 0
    /\ NextFree(Mem) # 0
    /\ LET p == NextFree(Mem)
           s == ssdfs_get_page(alloc_page(Mem, p), p)
       IN  /\ page_ref' = s.ref
           /\ page_live' = s.live
           /\ page_held' = [page_held EXCEPT ![p] = TRUE]
           /\ cx_page' = [cx_page EXCEPT ![c] = p]
    /\ cx_pc' = [cx_pc EXCEPT ![c] = IF accounting THEN "alloc_count" ELSE "idle"]
    /\ UNCHANGED <<page_locked, ssdfs_allocated_pages, cx_target, cx_seen,
                   ssdfs_locked_pages, cx_warn>>
    /\ ConcFrame

\* ssdfs_alloc_page(): atomic64_inc(&ssdfs_allocated_pages)
CxAllocCount(c) ==
    /\ cx_pc[c] = "alloc_count"
    /\ ssdfs_allocated_pages' = atomic64_inc(ssdfs_allocated_pages)
    /\ cx_pc' = [cx_pc EXCEPT ![c] = "idle"]
    /\ UNCHANGED <<page_held, page_ref, page_live, page_locked, cx_page, cx_target,
                   cx_seen, ssdfs_locked_pages, cx_warn>>
    /\ ConcFrame

\* ssdfs_free_page() up to the warnings: PageLocked(), ssdfs_put_page(),
\* page_ref_count(); the owner frees a page nobody else uses
CxFree(c) ==
    /\ cx_pc[c] = "idle"
    /\ cx_page[c] # 0
    /\ cx_target[c] = 0
    /\ ~UsedByOther(c, cx_page[c])
    /\ LET p  == cx_page[c]
           s1 == IF accounting /\ page_locked[p] THEN [Mem EXCEPT !.warn = TRUE] ELSE Mem
           s2 == ssdfs_put_page(s1, p)
           s3 == IF s2.ref[p] <= 0 \/ s2.ref[p] > 1
                 THEN [s2 EXCEPT !.warn = TRUE] ELSE s2
       IN  /\ page_ref' = s3.ref
           /\ page_live' = s3.live
           /\ cx_warn' = (cx_warn \/ s3.warn)
    /\ cx_pc' = [cx_pc EXCEPT ![c] = "free_count"]
    /\ UNCHANGED <<page_held, page_locked, ssdfs_allocated_pages, cx_page, cx_target,
                   cx_seen, ssdfs_locked_pages>>
    /\ ConcFrame

\* ssdfs_free_page(): atomic64_dec(&ssdfs_allocated_pages), __free_pages()
CxFreeCount(c) ==
    /\ cx_pc[c] = "free_count"
    /\ LET p == cx_page[c]
           s == free_pages(Mem, p)
       IN  /\ page_ref' = s.ref
           /\ page_live' = s.live
           /\ page_held' = [page_held EXCEPT ![p] = FALSE]
    /\ ssdfs_allocated_pages' = IF accounting THEN atomic64_dec(ssdfs_allocated_pages)
                                ELSE ssdfs_allocated_pages
    /\ cx_page' = [cx_page EXCEPT ![c] = 0]
    /\ cx_pc' = [cx_pc EXCEPT ![c] = "idle"]
    /\ UNCHANGED <<page_locked, cx_target, cx_seen, ssdfs_locked_pages, cx_warn>>
    /\ ConcFrame

\* a context calls ssdfs_lock_page() on an allocated page
CxLockCall(c) ==
    \E p \in PageIds :
        /\ cx_pc[c] = "idle"
        /\ cx_target[c] = 0
        /\ \E d \in Ctx : cx_page[d] = p /\ cx_pc[d] \in {"idle", "holding"}
        /\ cx_target' = [cx_target EXCEPT ![c] = p]
        /\ cx_pc' = [cx_pc EXCEPT ![c] = "lock_wait"]
        /\ UNCHANGED <<page_held, page_ref, page_live, page_locked,
                       ssdfs_allocated_pages, cx_page, cx_seen, ssdfs_locked_pages,
                       cx_warn>>
        /\ ConcFrame

\* ssdfs_lock_page(): lock_page() returns
CxLockAcquire(c) ==
    /\ cx_pc[c] = "lock_wait"
    /\ trylock_page(page_locked, cx_target[c])
    /\ page_locked' = [page_locked EXCEPT ![cx_target[c]] = TRUE]
    /\ cx_pc' = [cx_pc EXCEPT ![c] = IF accounting THEN "lock_read" ELSE "holding"]
    /\ UNCHANGED <<page_held, page_ref, page_live, ssdfs_allocated_pages, cx_page,
                   cx_target, cx_seen, ssdfs_locked_pages, cx_warn>>
    /\ ConcFrame

\* ssdfs_lock_page(): atomic64_read(&ssdfs_locked_pages) < 0 warns
CxLockRead(c) ==
    /\ cx_pc[c] = "lock_read"
    /\ cx_seen' = [cx_seen EXCEPT ![c] = atomic64_read(ssdfs_locked_pages)]
    /\ cx_warn' = (cx_warn \/ atomic64_read(ssdfs_locked_pages) < 0)
    /\ cx_pc' = [cx_pc EXCEPT ![c] = "lock_count"]
    /\ UNCHANGED <<page_held, page_ref, page_live, page_locked,
                   ssdfs_allocated_pages, cx_page, cx_target, ssdfs_locked_pages>>
    /\ ConcFrame

\* ssdfs_lock_page(): atomic64_inc(&ssdfs_locked_pages)
CxLockCount(c) ==
    /\ cx_pc[c] = "lock_count"
    /\ ssdfs_locked_pages' = ssdfs_lock_page_count(ssdfs_locked_pages, cx_seen[c])
    /\ cx_seen' = [cx_seen EXCEPT ![c] = 0]
    /\ cx_pc' = [cx_pc EXCEPT ![c] = "holding"]
    /\ UNCHANGED <<page_held, page_ref, page_live, page_locked,
                   ssdfs_allocated_pages, cx_page, cx_target, cx_warn>>
    /\ ConcFrame

\* ssdfs_unlock_page() by the holder: PageLocked() check, unlock_page()
CxUnlock(c) ==
    /\ cx_pc[c] = "holding"
    /\ cx_warn' = (cx_warn \/ (accounting /\ ~page_locked[cx_target[c]]))
    /\ page_locked' = unlock_page(page_locked, cx_target[c])
    /\ cx_target' = [cx_target EXCEPT ![c] = 0]
    /\ cx_pc' = [cx_pc EXCEPT ![c] = IF accounting THEN "unlock_count" ELSE "idle"]
    /\ UNCHANGED <<page_held, page_ref, page_live, ssdfs_allocated_pages, cx_page,
                   cx_seen, ssdfs_locked_pages>>
    /\ ConcFrame

\* ssdfs_unlock_page(): atomic64_dec(&ssdfs_locked_pages)
CxUnlockCount(c) ==
    /\ cx_pc[c] = "unlock_count"
    /\ ssdfs_locked_pages' = ssdfs_unlock_page_count(ssdfs_locked_pages)
    /\ cx_pc' = [cx_pc EXCEPT ![c] = "unlock_read"]
    /\ UNCHANGED <<page_held, page_ref, page_live, page_locked,
                   ssdfs_allocated_pages, cx_page, cx_target, cx_seen, cx_warn>>
    /\ ConcFrame

\* ssdfs_unlock_page(): atomic64_read(&ssdfs_locked_pages) < 0 warns, and the
\* call returns
CxUnlockRead(c) ==
    /\ cx_pc[c] = "unlock_read"
    /\ cx_warn' = (cx_warn \/ atomic64_read(ssdfs_locked_pages) < 0)
    /\ cx_pc' = [cx_pc EXCEPT ![c] = "idle"]
    /\ UNCHANGED <<page_held, page_ref, page_live, page_locked,
                   ssdfs_allocated_pages, cx_page, cx_target, cx_seen,
                   ssdfs_locked_pages>>
    /\ ConcFrame

(***************************************************************************)
(* Page locks of the callers, and pages and locks that reach the helpers   *)
(* from another layer.                                                     *)
(*                                                                         *)
(* The callers lock and unlock the handles they hold.  With leak           *)
(* accounting ssdfs_lock_page() and ssdfs_unlock_page() touch the page     *)
(* flag and the counter in separate accesses, and the calls of other       *)
(* contexts run between them; lock_call and unlock_call hold the calls     *)
(* that are past the page flag, at most one of either kind per page and    *)
(* MaxCalls in all.                                                        *)
(* A page that was obtained with the kernel's alloc_page() and get_page(), *)
(* or locked with the kernel's lock_page(), has not been counted; freeing  *)
(* or unlocking it through the helpers takes a counter below zero.         *)
(***************************************************************************)
MaxDrift == 1

MaxCalls == 2

NoLockCall == [pc |-> "none", warn |-> FALSE]

NoUnlockCall == [pc |-> "none", warn |-> FALSE]

\* the number of ssdfs_lock_page() and ssdfs_unlock_page() calls that are
\* between their accesses
CallsInProgress ==
    Cardinality({p \in PageIds : lock_call[p].pc # "none"})
        + Cardinality({p \in PageIds : unlock_call[p].pc # "none"})

NoCallInProgress == CallsInProgress = 0

\* ssdfs_account_locked_page(page): counts a page that was locked with the
\* kernel's lock_page(); n is ssdfs_locked_pages, p = 0 is NULL
ssdfs_account_locked_page(acct, s, n, p) ==
    IF ~acct \/ p = 0
    THEN [s |-> s, locked |-> n]
    ELSE LET s1 == IF ~s.lck[p] THEN [s EXCEPT !.warn = TRUE] ELSE s
             s2 == IF atomic64_read(n) < 0 THEN [s1 EXCEPT !.warn = TRUE] ELSE s1
         IN  [s |-> s2, locked |-> atomic64_inc(n)]

LockFrame == UNCHANGED <<accounting, variant, pvec, array, copyVars, utilVars,
                         cx_pc, cx_page, cx_target, cx_seen, cx_warn, famVars, tagVars,
                         stepVars>>

\* what a step of ssdfs_lock_page() or ssdfs_unlock_page() leaves alone
StepFrame == UNCHANGED <<accounting, variant, page_held, page_ref, page_live,
                         ssdfs_allocated_pages, name_page_leaks, pvec, array,
                         copyVars, utilVars, cx_pc, cx_page, cx_target, cx_seen,
                         cx_warn, famVars, tagVars>>

\* the record of a step of ssdfs_lock_page() or ssdfs_unlock_page() on page
\* p; the memory it leaves is as it found it but for the lock flag
StepDone(name, p, warn) == [Done(name, 0, p, 0, Mem) EXCEPT !.warn = warn]

\* ssdfs_lock_page() on a handle that is not locked: lock_page() returns;
\* in a build without leak accounting the call is over
LockPage ==
    \E p \in PageIds :
        /\ page_held[p] /\ page_live[p]
        /\ trylock_page(page_locked, p)
        /\ lock_call[p].pc = "none"
        /\ CallsInProgress < MaxCalls
        /\ page_locked' = [page_locked EXCEPT ![p] = TRUE]
        /\ lock_call' = IF accounting
                        THEN [lock_call EXCEPT ![p] = [pc |-> "read", warn |-> FALSE]]
                        ELSE lock_call
        /\ op' = StepDone(IF accounting THEN "lock_page.locked" ELSE "lock_page",
                          p, FALSE)
        /\ streak' = 0
        /\ UNCHANGED <<ssdfs_locked_pages, unlock_call>>
        /\ StepFrame

\* ssdfs_lock_page(): atomic64_read(&ssdfs_locked_pages) < 0 warns
LockPageRead ==
    \E p \in PageIds :
        /\ lock_call[p].pc = "read"
        /\ lock_call' = [lock_call EXCEPT
                            ![p] = [pc |-> "count",
                                    warn |-> atomic64_read(ssdfs_locked_pages) < 0]]
        /\ op' = StepDone("lock_page.read", p, atomic64_read(ssdfs_locked_pages) < 0)
        /\ streak' = 0
        /\ UNCHANGED <<page_locked, ssdfs_locked_pages, unlock_call>>
        /\ StepFrame

\* ssdfs_lock_page(): atomic64_inc(&ssdfs_locked_pages), and the call returns
LockPageCount ==
    \E p \in PageIds :
        /\ lock_call[p].pc = "count"
        /\ ssdfs_locked_pages' = atomic64_inc(ssdfs_locked_pages)
        /\ lock_call' = [lock_call EXCEPT ![p] = NoLockCall]
        /\ op' = StepDone("lock_page", p, lock_call[p].warn)
        /\ streak' = 0
        /\ UNCHANGED <<page_locked, unlock_call>>
        /\ StepFrame

\* ssdfs_unlock_page() on a locked handle by the context whose
\* ssdfs_lock_page() has returned: the PageLocked() check and unlock_page();
\* in a build without leak accounting the call is over
UnlockPage ==
    \E p \in PageIds :
        /\ page_held[p] /\ page_live[p] /\ page_locked[p]
        /\ lock_call[p].pc = "none"
        /\ unlock_call[p].pc = "none"
        /\ CallsInProgress < MaxCalls
        /\ page_locked' = unlock_page(page_locked, p)
        /\ unlock_call' = IF accounting
                          THEN [unlock_call EXCEPT
                                  ![p] = [pc |-> "count", warn |-> ~page_locked[p]]]
                          ELSE unlock_call
        /\ op' = StepDone(IF accounting THEN "unlock_page.unlocked" ELSE "unlock_page",
                          p, accounting /\ ~page_locked[p])
        /\ streak' = 0
        /\ UNCHANGED <<ssdfs_locked_pages, lock_call>>
        /\ StepFrame

\* ssdfs_unlock_page(): atomic64_dec(&ssdfs_locked_pages)
UnlockPageCount ==
    \E p \in PageIds :
        /\ unlock_call[p].pc = "count"
        /\ ssdfs_locked_pages' = ssdfs_unlock_page_count(ssdfs_locked_pages)
        /\ unlock_call' = [unlock_call EXCEPT ![p].pc = "read"]
        /\ op' = StepDone("unlock_page.counted", p, unlock_call[p].warn)
        /\ streak' = 0
        /\ UNCHANGED <<page_locked, lock_call>>
        /\ StepFrame

\* ssdfs_unlock_page(): atomic64_read(&ssdfs_locked_pages) < 0 warns, and the
\* call returns
UnlockPageRead ==
    \E p \in PageIds :
        /\ unlock_call[p].pc = "read"
        /\ unlock_call' = [unlock_call EXCEPT ![p] = NoUnlockCall]
        /\ op' = StepDone("unlock_page", p,
                          unlock_call[p].warn \/ atomic64_read(ssdfs_locked_pages) < 0)
        /\ streak' = 0
        /\ UNCHANGED <<page_locked, ssdfs_locked_pages, lock_call>>
        /\ StepFrame

\* free_page: the family's free_page() on a handle the caller owns and has
\* left locked.  What __free_pages() does with a page whose PG_locked is
\* set depends on the kernel: one that checks the page flags when a page is
\* freed reports a bad page and leaves it out of the allocator for good
\* (checked), any other takes the page back.
FreeLockedPage ==
    \E p \in CallerHeld, checked \in BOOLEAN :
        /\ page_locked[p]
        /\ ssdfs_locked_pages < MaxPages
        /\ LET s0 == FreePageOf(variant, accounting, Mem, p)
               s == IF checked /\ ~s0.live[p]
                    THEN [s0 EXCEPT !.live[p] = TRUE]
                    ELSE s0
           IN  /\ Commit(s)
               /\ op' = Done("free_page", 0, p, 0, s)
        /\ page_held' = [page_held EXCEPT ![p] = FALSE]
        /\ streak' = 0
        /\ UNCHANGED ssdfs_locked_pages
        /\ LockFrame

\* another layer hands over a page it got from alloc_page() and get_page()
ForeignPage ==
    /\ CallerHeld = {}
    /\ NextFree(Mem) # 0
    /\ ssdfs_allocated_pages > -MaxDrift
    /\ name_page_leaks > -MaxDrift
    /\ LET p == NextFree(Mem)
           s == get_page(alloc_page(Mem, p), p)
       IN  /\ Commit(s)
           /\ page_held' = [page_held EXCEPT ![p] = TRUE]
           /\ op' = Done("foreign_page", 0, p, 0, s)
    /\ streak' = 0
    /\ UNCHANGED ssdfs_locked_pages
    /\ LockFrame

\* another layer hands over a handle it locked with lock_page()
ForeignLock ==
    \E p \in PageIds :
        /\ page_held[p] /\ page_live[p] /\ ~page_locked[p]
        /\ ssdfs_locked_pages > -MaxDrift
        /\ LET s == [Mem EXCEPT !.lck[p] = TRUE]
           IN  /\ Commit(s)
               /\ op' = Done("foreign_lock", 0, p, 0, s)
        /\ streak' = 0
        /\ UNCHANGED <<page_held, ssdfs_locked_pages>>
        /\ LockFrame

\* the family's account_page(page) on a handle of the caller, or on NULL
AccountPage ==
    \E p \in CallerHeld \cup {0} :
        /\ name_page_leaks < MaxDrift
        /\ LET s == AccountPageOf(variant, Mem, p)
           IN  /\ Commit(s)
               /\ op' = Done("account_page", 0, p, 0, s)
        /\ streak' = 0
        /\ UNCHANGED <<page_held, ssdfs_locked_pages>>
        /\ LockFrame

\* the family's forget_page(page) on a handle of the caller, or on NULL
ForgetPage ==
    \E p \in CallerHeld \cup {0} :
        /\ name_page_leaks > -MaxDrift
        /\ LET s == ForgetPageOf(variant, Mem, p)
           IN  /\ Commit(s)
               /\ op' = Done("forget_page", 0, p, 0, s)
        /\ streak' = 0
        /\ UNCHANGED <<page_held, ssdfs_locked_pages>>
        /\ LockFrame

\* ssdfs_account_locked_page(page) on a handle of the caller, locked or
\* not, or on NULL
AccountLockedPage ==
    \E p \in {q \in PageIds : page_held[q] /\ page_live[q]} \cup {0} :
        /\ ssdfs_locked_pages < MaxDrift
        /\ LET r == ssdfs_account_locked_page(accounting, Mem, ssdfs_locked_pages, p)
           IN  /\ Commit(r.s)
               /\ ssdfs_locked_pages' = r.locked
               /\ op' = Done("account_locked_page", 0, p, 0, r.s)
        /\ streak' = 0
        /\ UNCHANGED page_held
        /\ LockFrame

(***************************************************************************)
(* Two subsystems.                                                         *)
(*                                                                         *)
(* SSDFS_MEMORY_LEAKS_CHECKER_FNS is instantiated once per subsystem; each *)
(* instance has its own ssdfs_<name>_page_leaks and all of them share      *)
(* ssdfs_allocated_pages.  The subsystems "name" and "peer" call their own *)
(* functions on the pages and the pagevec of one caller, in a build with   *)
(* leak accounting.  A page may be given back through the functions of the *)
(* subsystem that did not allocate it, so a counter may go below zero; the *)
(* calls stop when a counter is MaxPages away from zero.                   *)
(***************************************************************************)
Subsystems == {"name", "peer"}

\* the memory state as the functions of subsystem n see it
TagMem(n) == IF n = "name" THEN Mem ELSE [Mem EXCEPT !.leaks = peer_page_leaks]

\* the memory state s left by a function of subsystem n becomes the state
\* of the system
TagCommit(n, s) ==
    /\ page_ref' = s.ref
    /\ page_live' = s.live
    /\ page_locked' = s.lck
    /\ ssdfs_allocated_pages' = s.alloc
    /\ name_page_leaks' = IF n = "name" THEN s.leaks ELSE name_page_leaks
    /\ peer_page_leaks' = IF n = "peer" THEN s.leaks ELSE peer_page_leaks

TagFrame == UNCHANGED <<accounting, variant, array, copyVars, utilVars, concVars,
                        famVars, stepVars>>

\* ssdfs_<n>_alloc_page(gfp_mask)
TagAllocPage(n) ==
    \E nomem \in BOOLEAN :
        /\ CallerHeld = {}
        /\ TagMem(n).leaks < MaxPages
        /\ LET p == IF nomem THEN 0 ELSE NextFree(Mem)
               r == checker_alloc_page(accounting, TagMem(n), p, TRUE, FALSE)
           IN  /\ TagCommit(n, r.s)
               /\ page_held' = IF r.page # 0 THEN [page_held EXCEPT ![r.page] = TRUE]
                               ELSE page_held
               /\ op' = [Done("alloc_page", r.err, r.page, 1, r.s)
                            EXCEPT !.zeroed = r.zeroed]
        /\ streak' = 0
        /\ UNCHANGED pvec
        /\ TagFrame

\* ssdfs_<n>_free_page(page) on a handle the caller owns
TagFreePage(n) ==
    \E p \in CallerHeld :
        /\ TagMem(n).leaks > -MaxPages
        /\ LET s == checker_free_page(accounting, TagMem(n), p)
           IN  /\ TagCommit(n, s)
               /\ op' = Done("free_page", 0, p, 0, s)
        /\ page_held' = [page_held EXCEPT ![p] = FALSE]
        /\ streak' = 0
        /\ UNCHANGED pvec
        /\ TagFrame

\* ssdfs_<n>_add_pagevec_page(pvec)
TagAddPagevecPage(n) ==
    \E nomem \in BOOLEAN :
        /\ TagMem(n).leaks < MaxPages
        /\ LET p == IF nomem THEN 0 ELSE NextFree(Mem)
               r == checker_add_pagevec_page(accounting, TagMem(n), pvec, p)
           IN  /\ TagCommit(n, r.s)
               /\ pvec' = r.pv
               /\ page_held' = IF r.page # 0 THEN [page_held EXCEPT ![r.page] = TRUE]
                               ELSE page_held
               /\ op' = Done("add_pagevec_page", r.err, r.page, 0, r.s)
        /\ streak' = 0
        /\ TagFrame

\* ssdfs_<n>_pagevec_release(pvec)
TagPagevecRelease(n) ==
    /\ TagMem(n).leaks - pagevec_count(pvec) >= -MaxPages
    /\ LET r == checker_pagevec_release(accounting, TagMem(n), pvec)
       IN  /\ TagCommit(n, r.s)
           /\ pvec' = r.pv
           /\ op' = Done("pagevec_release", 0, 0, pagevec_count(pvec), r.s)
    /\ page_held' = [p \in PageIds |-> page_held[p] /\ ~InPvec(p)]
    /\ streak' = IF op.name = "pagevec_release" THEN 2 ELSE 1
    /\ TagFrame

(***************************************************************************)
(* The generated families side by side.                                    *)
(*                                                                         *)
(* SSDFS_MEMORY_LEAKS_CHECKER_FNS(name) is the family of a build with leak *)
(* accounting, SSDFS_MEMORY_ALLOCATOR_FNS(name) the family of a build      *)
(* without.  A memory state carries, besides the page fields,              *)
(*   s.km       the objects kmalloc() handed out                           *)
(*   s.memleaks ssdfs_memory_leaks                                         *)
(*   s.kleaks   ssdfs_<name>_memory_leaks                                  *)
(*   s.cleaks   ssdfs_<name>_cache_leaks                                   *)
(***************************************************************************)
MaxObjs == 2

ObjIds == 1..MaxObjs

\* the object kmalloc() would hand out next, 0 when it has none
NextObj(s) == IF ObjIds \ s.km = {} THEN 0
              ELSE CHOOSE k \in ObjIds \ s.km : \A j \in ObjIds \ s.km : k <= j

kmalloc(s, k) == IF k = 0 THEN s ELSE [s EXCEPT !.km = @ \cup {k}]

kfree(s, k) == [s EXCEPT !.km = @ \ {k}]

ssdfs_memory_leaks_increment(acct, s) ==
    IF acct THEN [s EXCEPT !.memleaks = @ + 1] ELSE s

ssdfs_memory_leaks_decrement(acct, s) ==
    IF acct THEN [s EXCEPT !.memleaks = @ - 1] ELSE s

\* ssdfs_kmalloc(size, flags); k is what kmalloc() returns (0: NULL)
ssdfs_kmalloc(acct, s, k) ==
    LET s1 == kmalloc(s, k)
    IN  [s |-> IF k # 0 THEN ssdfs_memory_leaks_increment(acct, s1) ELSE s1,
         kaddr |-> k]

ssdfs_kfree(acct, s, k) ==
    IF k # 0 THEN kfree(ssdfs_memory_leaks_decrement(acct, s), k) ELSE s

\* SSDFS_MEMORY_LEAKS_CHECKER_FNS(name): ssdfs_<name>_cache_leaks_increment()
\* counts an object that came from a kmem_cache
checker_cache_leaks_increment(acct, s) ==
    ssdfs_memory_leaks_increment(acct, [s EXCEPT !.cleaks = @ + 1])

\* SSDFS_MEMORY_LEAKS_CHECKER_FNS(name): ssdfs_<name>_cache_leaks_decrement()
checker_cache_leaks_decrement(acct, s) ==
    ssdfs_memory_leaks_decrement(acct, [s EXCEPT !.cleaks = @ - 1])

\* SSDFS_MEMORY_ALLOCATOR_FNS(name): ssdfs_<name>_cache_leaks_increment()
allocator_cache_leaks_increment(acct, s) == ssdfs_memory_leaks_increment(acct, s)

\* SSDFS_MEMORY_ALLOCATOR_FNS(name): ssdfs_<name>_cache_leaks_decrement()
allocator_cache_leaks_decrement(acct, s) == ssdfs_memory_leaks_decrement(acct, s)

\* SSDFS_MEMORY_LEAKS_CHECKER_FNS(name): ssdfs_<name>_kmalloc()
checker_kmalloc(acct, s, k) ==
    LET r == ssdfs_kmalloc(acct, s, k)
    IN  IF r.kaddr # 0 THEN [r EXCEPT !.s.kleaks = @ + 1] ELSE r

\* SSDFS_MEMORY_ALLOCATOR_FNS(name): ssdfs_<name>_kmalloc()
allocator_kmalloc(acct, s, k) == ssdfs_kmalloc(acct, s, k)

\* SSDFS_MEMORY_LEAKS_CHECKER_FNS(name): ssdfs_<name>_kfree()
checker_kfree(acct, s, k) ==
    LET s1 == IF k # 0 THEN [s EXCEPT !.kleaks = @ - 1] ELSE s
    IN  ssdfs_kfree(acct, s1, k)

\* SSDFS_MEMORY_ALLOCATOR_FNS(name): ssdfs_<name>_kfree()
allocator_kfree(acct, s, k) == ssdfs_kfree(acct, s, k)

NoMem == [ref |-> [p \in PageIds |-> 0], live |-> [p \in PageIds |-> FALSE],
          lck |-> [p \in PageIds |-> FALSE], alloc |-> 0, leaks |-> 0,
          warn |-> FALSE, km |-> {}, memleaks |-> 0, kleaks |-> 0, cleaks |-> 0]

NoRet == [err |-> 0, page |-> 0]

\* a family's world: its memory state and the pagevec its callers fill
FamilyInit ==
    /\ fm_chk = [s |-> NoMem, pv |-> EmptyPvec]
    /\ fm_alc = [s |-> NoMem, pv |-> EmptyPvec]
    /\ fm_ret = <<NoRet, NoRet>>

\* the pages of a family's world that are allocated and outside its pagevec
Loose(f) == {p \in PageIds : f.s.live[p] /\ \A i \in 1..f.pv.nr : f.pv.pages[i] # p}

FamilyFrame == UNCHANGED <<pageVars, copyVars, utilVars, concVars, tagVars, stepVars>>

\* ssdfs_<name>_kmalloc(size, flags) in both families
FmKmalloc ==
    \E nomem \in BOOLEAN :
        LET c == checker_kmalloc(TRUE, fm_chk.s, IF nomem THEN 0 ELSE NextObj(fm_chk.s))
            a == allocator_kmalloc(FALSE, fm_alc.s, IF nomem THEN 0 ELSE NextObj(fm_alc.s))
        IN  /\ fm_chk' = [fm_chk EXCEPT !.s = c.s]
            /\ fm_alc' = [fm_alc EXCEPT !.s = a.s]
            /\ fm_ret' = <<[err |-> 0, page |-> c.kaddr], [err |-> 0, page |-> a.kaddr]>>
            /\ FamilyFrame

\* ssdfs_<name>_kfree(kaddr) in both families; kaddr may be NULL
FmKfree ==
    \E k \in fm_chk.s.km \cup {0} :
        /\ fm_chk' = [fm_chk EXCEPT !.s = checker_kfree(TRUE, fm_chk.s, k)]
        /\ fm_alc' = [fm_alc EXCEPT !.s = allocator_kfree(FALSE, fm_alc.s, k)]
        /\ fm_ret' = <<NoRet, NoRet>>
        /\ FamilyFrame

\* ssdfs_<name>_cache_leaks_increment(kaddr) in both families, for an object
\* of a kmem_cache
FmCacheLeaksIncrement ==
    /\ fm_chk.s.cleaks < MaxObjs
    /\ fm_chk' = [fm_chk EXCEPT !.s = checker_cache_leaks_increment(TRUE, fm_chk.s)]
    /\ fm_alc' = [fm_alc EXCEPT !.s = allocator_cache_leaks_increment(FALSE, fm_alc.s)]
    /\ fm_ret' = <<NoRet, NoRet>>
    /\ FamilyFrame

\* ssdfs_<name>_cache_leaks_decrement(kaddr) in both families
FmCacheLeaksDecrement ==
    /\ fm_chk.s.cleaks > -MaxObjs
    /\ fm_chk' = [fm_chk EXCEPT !.s = checker_cache_leaks_decrement(TRUE, fm_chk.s)]
    /\ fm_alc' = [fm_alc EXCEPT !.s = allocator_cache_leaks_decrement(FALSE, fm_alc.s)]
    /\ fm_ret' = <<NoRet, NoRet>>
    /\ FamilyFrame

\* ssdfs_<name>_account_page(page) in both families; page may be NULL
FmAccountPage ==
    \E p \in Loose(fm_chk) \cup {0} :
        /\ fm_chk.s.leaks < MaxPages
        /\ fm_chk' = [fm_chk EXCEPT !.s = checker_account_page(fm_chk.s, p)]
        /\ fm_alc' = [fm_alc EXCEPT !.s = allocator_account_page(fm_alc.s, p)]
        /\ fm_ret' = <<NoRet, NoRet>>
        /\ FamilyFrame

\* ssdfs_<name>_forget_page(page) in both families; page may be NULL
FmForgetPage ==
    \E p \in Loose(fm_chk) \cup {0} :
        /\ fm_chk.s.leaks > -MaxPages
        /\ fm_chk' = [fm_chk EXCEPT !.s = checker_forget_page(fm_chk.s, p)]
        /\ fm_alc' = [fm_alc EXCEPT !.s = allocator_forget_page(fm_alc.s, p)]
        /\ fm_ret' = <<NoRet, NoRet>>
        /\ FamilyFrame

\* ssdfs_<name>_alloc_page(gfp_mask) in both families
FmAllocPage ==
    \E nomem \in BOOLEAN :
        /\ Loose(fm_chk) = {}
        /\ LET c == checker_alloc_page(TRUE, fm_chk.s,
                        IF nomem THEN 0 ELSE NextFree(fm_chk.s), TRUE, FALSE)
               a == allocator_alloc_page(FALSE, fm_alc.s,
                        IF nomem THEN 0 ELSE NextFree(fm_alc.s), TRUE, FALSE)
           IN  /\ fm_chk' = [fm_chk EXCEPT !.s = c.s]
               /\ fm_alc' = [fm_alc EXCEPT !.s = a.s]
               /\ fm_ret' = <<[err |-> c.err, page |-> c.page],
                              [err |-> a.err, page |-> a.page]>>
        /\ FamilyFrame

\* ssdfs_<name>_free_page(page) in both families; page may be NULL
FmFreePage ==
    \E p \in Loose(fm_chk) \cup {0} :
        /\ fm_chk' = [fm_chk EXCEPT !.s = [checker_free_page(TRUE, fm_chk.s, p)
                                             EXCEPT !.warn = FALSE]]
        /\ fm_alc' = [fm_alc EXCEPT !.s = [allocator_free_page(FALSE, fm_alc.s, p)
                                             EXCEPT !.warn = FALSE]]
        /\ fm_ret' = <<NoRet, NoRet>>
        /\ FamilyFrame

\* ssdfs_<name>_add_pagevec_page(pvec) in both families
FmAddPagevecPage ==
    \E nomem \in BOOLEAN :
        LET c == checker_add_pagevec_page(TRUE, fm_chk.s, fm_chk.pv,
                     IF nomem THEN 0 ELSE NextFree(fm_chk.s))
            a == allocator_add_pagevec_page(FALSE, fm_alc.s, fm_alc.pv,
                     IF nomem THEN 0 ELSE NextFree(fm_alc.s))
        IN  /\ fm_chk' = [s |-> c.s, pv |-> c.pv]
            /\ fm_alc' = [s |-> a.s, pv |-> a.pv]
            /\ fm_ret' = <<[err |-> c.err, page |-> c.page],
                           [err |-> a.err, page |-> a.page]>>
            /\ FamilyFrame

\* ssdfs_<name>_pagevec_release(pvec) in both families
FmPagevecRelease ==
    LET c == checker_pagevec_release(TRUE, fm_chk.s, fm_chk.pv)
        a == allocator_pagevec_release(FALSE, fm_alc.s, fm_alc.pv)
    IN  /\ fm_chk' = [s |-> [c.s EXCEPT !.warn = FALSE], pv |-> c.pv]
        /\ fm_alc' = [s |-> [a.s EXCEPT !.warn = FALSE], pv |-> a.pv]
        /\ fm_ret' = <<NoRet, NoRet>>
        /\ FamilyFrame

(***************************************************************************)
(* Specifications.                                                         *)
(***************************************************************************)
\* loose pages and the pagevec
Next ==
    \/ AllocPage
    \/ GetPage
    \/ PutPage
    \/ FreePage
    \/ AddPagevecPage
    \/ PagevecRelease

\* loose pages and the page vector (retained references are followed with
\* the pagevec, under Spec)
VectorNext ==
    \/ AllocPage
    \/ FreePage
    \/ VectorCreate
    \/ VectorInit
    \/ VectorReinit
    \/ VectorAdd
    \/ VectorAllocate
    \/ VectorRemove
    \/ VectorRelease

CopyNext == CopyCall \/ FillCall \/ MoveWithin \/ CopyReset

UtilNext == ReadRecord \/ ReadHeader \/ Calculate \/ Corrupt \/ Verify \/ ValidateMagic

FamilyNext ==
    \/ FmKmalloc
    \/ FmKfree
    \/ FmCacheLeaksIncrement
    \/ FmCacheLeaksDecrement
    \/ FmAccountPage
    \/ FmForgetPage
    \/ FmAllocPage
    \/ FmFreePage
    \/ FmAddPagevecPage
    \/ FmPagevecRelease

\* callers that lock their handles and free them unlocked
LockNext ==
    \/ AllocPage
    \/ FreePage
    \/ AddPagevecPage
    \/ PagevecRelease
    \/ LockPage
    \/ LockPageRead
    \/ LockPageCount
    \/ UnlockPage
    \/ UnlockPageCount
    \/ UnlockPageRead

\* callers of loose pages that also free locked handles and take over
\* pages and locks of another layer; one of them makes the lock and unlock
\* calls, and the calls of the others run between its accesses
MisuseNext ==
    \/ AllocPage
    \/ FreePage
    \/ NoCallInProgress /\ LockPage
    \/ LockPageRead
    \/ LockPageCount
    \/ NoCallInProgress /\ UnlockPage
    \/ UnlockPageCount
    \/ UnlockPageRead
    \/ FreeLockedPage
    \/ ForeignPage
    \/ ForeignLock
    \/ AccountPage
    \/ ForgetPage
    \/ AccountLockedPage

SubsysNext ==
    \E n \in Subsystems :
        \/ TagAllocPage(n)
        \/ TagFreePage(n)
        \/ TagAddPagevecPage(n)
        \/ TagPagevecRelease(n)

ConcNext ==
    \E c \in Ctx :
        \/ CxAlloc(c)
        \/ CxAllocCount(c)
        \/ CxFree(c)
        \/ CxFreeCount(c)
        \/ CxLockCall(c)
        \/ CxLockAcquire(c)
        \/ CxLockRead(c)
        \/ CxLockCount(c)
        \/ CxUnlock(c)
        \/ CxUnlockCount(c)
        \/ CxUnlockRead(c)

\* the variables of the specifications that are not running
PageIdle == PageInit /\ accounting /\ variant = "plain"

UtilIdle == UtilInit

Init == PageInit /\ CopyInit /\ UtilIdle /\ ConcInit /\ FamilyInit

Spec == Init /\ [][Next]_vars

VectorSpec == Init /\ [][VectorNext]_vars

CopySpecInit == PageIdle /\ CopyInit /\ UtilIdle /\ ConcInit /\ FamilyInit

CopySpec == CopySpecInit /\ [][CopyNext]_vars

UtilSpecInit == PageIdle /\ CopyInit /\ UtilInit /\ ConcInit /\ FamilyInit

UtilSpec == UtilSpecInit /\ [][UtilNext]_vars

\* the contexts call the plain functions, in a build with or without leak
\* accounting
ConcSpecInit ==
    PageInit /\ variant = "plain" /\ CopyInit /\ UtilIdle /\ ConcInit /\ FamilyInit

ConcSpec == ConcSpecInit /\ [][ConcNext]_vars

\* The contexts under a fair scheduler.  A context that is inside a helper
\* runs on to the end of it, and a context that holds a page lock calls
\* ssdfs_unlock_page(): weak fairness of those steps.  lock_page() queues
\* the waiter on the page's wait queue and the lock is handed to a queued
\* waiter ahead of later callers, so a waiter that finds the lock free
\* again and again obtains it: strong fairness of the acquisition.
ConcFairness ==
    \A c \in Ctx :
        /\ WF_vars(CxAllocCount(c))
        /\ WF_vars(CxFreeCount(c))
        /\ WF_vars(CxLockRead(c))
        /\ WF_vars(CxLockCount(c))
        /\ WF_vars(CxUnlock(c))
        /\ WF_vars(CxUnlockCount(c))
        /\ WF_vars(CxUnlockRead(c))
        /\ SF_vars(CxLockAcquire(c))

ConcFairSpec == ConcSpecInit /\ [][ConcNext]_vars /\ ConcFairness

\* the callers of LockSpec use the checker family, whose functions call the
\* plain ones, in a build with leak accounting
LockSpecInit == Init /\ accounting /\ variant = "checker"

LockSpec == LockSpecInit /\ [][LockNext]_vars

MisuseSpec == Init /\ [][MisuseNext]_vars

SubsysSpecInit == Init /\ accounting /\ variant = "checker"

SubsysSpec == SubsysSpecInit /\ [][SubsysNext]_vars

FamilySpecInit == PageIdle /\ CopyInit /\ UtilIdle /\ ConcInit /\ FamilyInit

FamilySpec == FamilySpecInit /\ [][FamilyNext]_vars

(***************************************************************************)
(* Properties.                                                             *)
(***************************************************************************)
\* the counters of outstanding pages
Counters == <<ssdfs_allocated_pages, name_page_leaks>>

\* what the family adds to the counters for one page
GlobalStep == IF accounting THEN 1 ELSE 0

SubsystemStep == IF variant = "checker" THEN 1 ELSE 0

\* the handles a vector owns
Owned(arr) == {arr.pages[i] : i \in 1..arr.count} \ {0}

\* C1: a page vector created with capacity C never holds more than C
\* handles: count() <= C after any sequence of add calls, and an add at
\* count() = C fails with -E2BIG and leaves the vector as it was.
C1_AddRespectsCapacity ==
    [][/\ array'.created => array'.count <= array'.capacity
       /\ op'.name = "add" /\ array.count = array.capacity
            => op'.ret = -E2BIG /\ array' = array
       /\ op'.name = "add" /\ array.count < array.capacity
            => op'.ret = 0 /\ array'.count = array.count + 1]_vars

C1_Witness ==
    /\ op.name = "add"
    /\ op.ret = -E2BIG
    /\ array.capacity = MaxCap
    /\ array.count = array.capacity

\* C2: add_pagevec_page of every family fails only with -ENOMEM or -E2BIG,
\* and a failed call leaves the global counter, the subsystem counter, the
\* pagevec and every page as they were: no page stays acquired outside.
C2_FailedAddLeavesNoPage ==
    [][op'.name = "add_pagevec_page" /\ op'.ret # 0
         => /\ op'.ret \in {-ENOMEM, -E2BIG}
            /\ op'.page = 0
            /\ UNCHANGED <<Counters, pvec, page_live, page_ref, page_held>>]_vars

C2_Witness ==
    /\ op.name = "add_pagevec_page"
    /\ op.ret = -E2BIG
    /\ pagevec_count(pvec) = PAGEVEC_SIZE
    /\ variant = "checker"
    /\ accounting
    /\ \E p \in PageIds : ~page_live[p]

\* C3: pagevec_release leaves the pagevec with count 0 every time, and a
\* release that directly follows a release frees no page and changes no
\* counter and no reference count.
C3_ReleaseIdempotent ==
    [][op'.name = "pagevec_release"
         => /\ pagevec_count(pvec') = 0
            /\ op.name = "pagevec_release"
                 => /\ op'.freed = 0
                    /\ UNCHANGED <<Counters, pvec, page_live, page_ref>>]_vars

C3_Witness ==
    /\ op.name = "pagevec_release"
    /\ streak = 2
    /\ pagevec_count(pvec) = 0
    /\ op.freed = 0
    /\ variant = "checker"

\* C4: filling a vector with allocate succeeds up to its capacity and then
\* fails with -E2BIG; remove of a non-tail slot hands out the handle and
\* leaves count() alone; release frees exactly the handles the vector
\* still owns, once each, leaves every other page (the removed handle
\* included) untouched, and resets count() to 0.
C4_ReleaseFreesOwnedOnly ==
    [][/\ op'.name = "allocate" /\ op'.ret # -ENOMEM
            => IF array.count < array.capacity
               THEN /\ op'.ret = 0
                    /\ array'.count = array.count + 1
                    /\ array'.pages[array'.count] = op'.page
               ELSE /\ op'.ret = -E2BIG
                    /\ UNCHANGED <<array, Counters, page_live>>
       /\ op'.name = "remove" /\ op'.arg < array.count - 1
            => /\ op'.ret = 0
               /\ op'.page = array.pages[op'.arg + 1]
               /\ array'.count = array.count
               /\ array'.pages[op'.arg + 1] = 0
               /\ UNCHANGED <<Counters, page_live, page_ref>>
       /\ op'.name = "release"
            => /\ array'.count = 0
               /\ op'.freed = Cardinality(Owned(array))
               /\ ssdfs_allocated_pages' =
                      ssdfs_allocated_pages - GlobalStep * Cardinality(Owned(array))
               /\ name_page_leaks' =
                      name_page_leaks - SubsystemStep * Cardinality(Owned(array))
               /\ \A p \in PageIds :
                      IF p \in Owned(array)
                      THEN ~page_live'[p] /\ page_ref'[p] = 0
                      ELSE /\ page_live'[p] = page_live[p]
                           /\ page_ref'[p] = page_ref[p]
                           /\ page_held'[p] = page_held[p]]_vars

\* a release that met a hole in a full vector while the caller still holds
\* the removed handle
C4_Witness ==
    /\ op.name = "release"
    /\ array.capacity = MaxCap
    /\ op.arg = MaxCap
    /\ op.freed = MaxCap - 1
    /\ array.count = 0
    /\ \E p \in CallerHeld : page_live[p] /\ page_ref[p] = 2

\* C5: every copy form refuses a range that exceeds the declared source or
\* destination capacity with -ERANGE and leaves the destination unchanged,
\* in the build with and in the build without CONFIG_SSDFS_DEBUG.
SumExceeds(off, size, limit) ==
    LET lo == off[2] + size[2]
        hi == off[1] + size[1] + (lo \div Half)
    IN  hi >= Half \/ Gt32(<<hi, lo % Half>>, limit)

OutOfRange(c) ==
    \/ SumExceeds(c.src_off, c.size, c.src_size)
    \/ SumExceeds(c.dst_off, c.size, c.dst_size)

C5_OutOfRangeCopyRefused ==
    cp_pc = "done" /\ cp_call.fn \in CopyFns /\ OutOfRange(cp_call)
        => /\ cp_dbg.ret = -ERANGE /\ cp_dbg.dst = cp_dst0 /\ ~cp_dbg.wild
           /\ cp_rel.ret = -ERANGE /\ cp_rel.dst = cp_dst0 /\ ~cp_rel.wild

\* C6: copy, move, fill and zero return the same result and leave the
\* destination in the same state whether CONFIG_SSDFS_DEBUG is set or not.
C6_SameInEveryBuild ==
    cp_pc = "done" => cp_dbg = cp_rel

\* C7: is_csum_valid returns true right after a successful
\* ssdfs_calculate_csum on the same record and buffer, whether the record
\* lies inside the buffer or not, and returns false once any single bit of
\* the bytes that calculation covered is flipped; a flipped bit outside
\* them and outside the record goes unnoticed.
C7_VerifyAfterCompute ==
    ut_pc = "verified" /\ fresh
        => /\ flipped = 0 => ut_ret = TRUE
           /\ (flipped >= 1 /\ flipped <= ut_cov) => ut_ret = FALSE
           /\ (flipped > ut_cov
                  /\ (ut_at = 0 \/ flipped < ut_at \/ flipped >= ut_at + RecordLen))
                => ut_ret = TRUE

\* the record lies inside the buffer, the calculation covered its csum
\* field, and a bit of that field was flipped
C7_Witness ==
    /\ ut_pc = "verified"
    /\ fresh
    /\ ut_at # 0
    /\ flipped >= ut_at + 4
    /\ flipped <= ut_at + 7
    /\ flipped <= ut_cov
    /\ ut_ret = FALSE

\* C8 as stated: a length in range with flags that do not select CRC32
\* fails with an error distinct from the -EINVAL of an excessive length.
C8_DistinctUnsupportedError ==
    /\ ut_pc = "calculated"
    /\ le16_to_cpu(ut_old.bytes) <= buf_size
    /\ BitOf(le16_to_cpu(ut_old.flags), 1) = 0
    => ut_ret # 0 /\ ut_ret # -EINVAL

\* the buffer with the csum field of a record that lies inside it cleared
CsumCleared ==
    IF ut_at = 0 THEN buf
    ELSE [i \in 1..Len(buf) |-> IF i >= ut_at + 4 /\ i <= ut_at + 7 THEN 0 ELSE buf[i]]

\* C8: ssdfs_calculate_csum returns -EINVAL, record untouched, when the
\* declared length exceeds buf_size, and the same -EINVAL, record
\* untouched, when the SSDFS_CRC32 bit of the flags is clear; otherwise it
\* stores the CRC32 of the first `bytes` bytes, taken with the record's own
\* csum field cleared when the record lies inside the buffer, and returns 0.
C8_ComputeErrors ==
    ut_pc = "calculated" /\ flipped = 0
        => /\ ut_at # 0 => check = RecordAt(buf, ut_at)
           /\ IF \/ le16_to_cpu(ut_old.bytes) > buf_size
                 \/ BitOf(le16_to_cpu(ut_old.flags), 1) = 0
              THEN ut_ret = -EINVAL /\ check = ut_old
              ELSE /\ ut_ret = 0
                   /\ check.bytes = ut_old.bytes
                   /\ check.flags = ut_old.flags
                   /\ check.csum
                        = ssdfs_crc32_le(CsumCleared, le16_to_cpu(ut_old.bytes))

C8_Witness ==
    /\ ut_pc = "calculated"
    /\ le16_to_cpu(ut_old.bytes) <= buf_size
    /\ le16_to_cpu(ut_old.bytes) > 0
    /\ BitOf(le16_to_cpu(ut_old.flags), 1) = 0
    /\ ut_ret = -EINVAL

\* C9: is_ssdfs_magic_valid is a boolean that is true exactly when the
\* stored magic is the bytes of SSDFS_SUPER_MAGIC, the major version is at
\* most SSDFS_MAJOR_REVISION and the minor at most SSDFS_MINOR_REVISION.
C9_IdentityValid ==
    ut_pc = "magic"
        => /\ ut_ret \in BOOLEAN
           /\ ut_ret = (/\ sig.common = GoodMagic
                        /\ sig.major <= SSDFS_MAJOR_REVISION
                        /\ sig.minor <= SSDFS_MINOR_REVISION)

C9_Witness ==
    /\ ut_pc = "magic"
    /\ sig.common = GoodMagic
    /\ sig.major > SSDFS_MAJOR_REVISION
    /\ sig.minor <= SSDFS_MINOR_REVISION
    /\ ut_ret = FALSE

\* C10 as stated: the page of a successful alloc_page is zero-filled and
\* has a reference count of exactly 1.
C10_ZeroedWithOneReference ==
    op.name = "alloc_page" /\ op.ret = 0
        => op.zeroed /\ page_ref[op.page] = 1

\* C10: the page of a successful alloc_page has a reference count of
\* exactly 2, is zero-filled when __GFP_ZERO was passed, and the global
\* counter (with leak accounting) and the subsystem counter (checker
\* family) have each grown by exactly one.
C10_AllocPageResult ==
    [][op'.name = "alloc_page" /\ op'.ret = 0
         => /\ op'.page \in PageIds
            /\ ~page_live[op'.page]
            /\ page_live'[op'.page]
            /\ page_ref'[op'.page] = 2
            /\ op'.arg = 1 => op'.zeroed
            /\ ssdfs_allocated_pages' = ssdfs_allocated_pages + GlobalStep
            /\ name_page_leaks' = name_page_leaks + SubsystemStep]_vars

C10_Witness ==
    /\ op.name = "alloc_page"
    /\ op.ret = 0
    /\ op.arg = 0
    /\ ~op.zeroed
    /\ page_ref[op.page] = 2
    /\ variant = "checker"
    /\ accounting
    /\ ssdfs_allocated_pages = 2
    /\ name_page_leaks = 2

\* C11: an alloc_page of any family that gets no page from alloc_page()
\* fails with -ENOMEM, and a failed alloc_page leaves the global counter,
\* the subsystem counter and every page as they were.
C11_AllocFailureTouchesNothing ==
    [][op'.name = "alloc_page"
         => /\ (\A p \in PageIds : page_live[p]) => op'.ret = -ENOMEM
            /\ op'.ret # 0
                 => /\ op'.ret = -ENOMEM
                    /\ op'.page = 0
                    /\ UNCHANGED <<Counters, page_live, page_ref, page_held>>]_vars

C11_Witness ==
    /\ op.name = "alloc_page"
    /\ op.ret = -ENOMEM
    /\ variant = "checker"
    /\ accounting
    /\ ssdfs_allocated_pages = 1
    /\ name_page_leaks = 1

\* C12: free_page of a handle that is unlocked and carries only the two
\* references of its alloc_page warns about nothing, takes the reference
\* count to 0, returns that one page to the allocator, and lowers the
\* global counter (with leak accounting) and the subsystem counter
\* (checker family) by exactly one.
C12_FreeFreshHandle ==
    [][(op'.name = "free_page" /\ page_ref[op'.page] = 2 /\ ~page_locked[op'.page])
         => /\ ~op'.warn
            /\ page_ref'[op'.page] = 0
            /\ ~page_live'[op'.page]
            /\ ~page_held'[op'.page]
            /\ op'.freed = 1
            /\ \A q \in PageIds \ {op'.page} :
                   page_live'[q] = page_live[q] /\ page_ref'[q] = page_ref[q]
            /\ ssdfs_allocated_pages' = ssdfs_allocated_pages - GlobalStep
            /\ name_page_leaks' = name_page_leaks - SubsystemStep]_vars

\* the only page outstanding was freed: all page counters are back at 0
C12_Witness ==
    /\ op.name = "free_page"
    /\ ~op.warn
    /\ op.freed = 1
    /\ ~page_live[op.page]
    /\ variant = "checker"
    /\ accounting
    /\ ssdfs_allocated_pages = 0
    /\ name_page_leaks = 0
    /\ \A p \in PageIds : ~page_live[p]

\* C13: on every page at most one context is between the return of
\* lock_page() and its unlock_page(), and lock_page() returns to a context
\* only when no other context holds the page locked.
C13_LockMutualExclusion ==
    [][/\ \A p \in PageIds : Cardinality(Holders(p)') <= 1
       /\ \A c \in Ctx :
              cx_pc[c] = "lock_wait" /\ cx_pc'[c] # "lock_wait"
                  => /\ Holders(cx_target[c]) = {}
                     /\ ~page_locked[cx_target[c]]
                     /\ Holders(cx_target[c])' = {c}]_vars

\* one context holds a page locked while another is inside lock_page() on it
C13_Witness ==
    \E c \in Ctx, d \in Ctx :
        /\ c # d
        /\ cx_pc[c] = "holding"
        /\ cx_pc[d] = "lock_wait"
        /\ cx_target[c] = cx_target[d]
        /\ page_locked[cx_target[c]]

\* no context is inside a function
Quiescent == \A c \in Ctx : cx_pc[c] \in {"idle", "holding"}

\* C15: whenever every context is between calls, ssdfs_allocated_pages
\* equals the number of pages allocated and not freed, and
\* ssdfs_locked_pages the number of pages locked and not unlocked (both 0
\* in a build without leak accounting); no counter warning was emitted.
C15_NoLostCounterUpdate ==
    Quiescent
        => /\ ssdfs_allocated_pages
                = GlobalStep * Cardinality({c \in Ctx : cx_page[c] # 0})
           /\ ssdfs_locked_pages
                = GlobalStep * Cardinality({p \in PageIds : page_locked[p]})
           /\ ~cx_warn

\* every context owns a page and holds a different page locked
C15_Witness ==
    /\ Quiescent
    /\ accounting
    /\ \A c \in Ctx : cx_pc[c] = "holding" /\ cx_page[c] # 0
    /\ \A c \in Ctx, d \in Ctx : c # d => cx_target[c] # cx_target[d]
    /\ ssdfs_allocated_pages = NumCtx
    /\ ssdfs_locked_pages = NumCtx

\* what a caller can see of a family's world: the result of the call, the
\* pages and their reference counts, the pagevec and the kmalloc objects;
\* the leak counters are left out
FamilyView(f, r) ==
    [ret |-> r, live |-> f.s.live, ref |-> f.s.ref, lck |-> f.s.lck,
     pv |-> f.pv, km |-> f.s.km]

\* C14: after every sequence of subsystem-tagged kmalloc / kfree /
\* alloc_page / free_page / add_pagevec_page / pagevec_release calls, the
\* family of SSDFS_MEMORY_LEAKS_CHECKER_FNS and the family of
\* SSDFS_MEMORY_ALLOCATOR_FNS have returned the same result and left the
\* same pages, reference counts, pagevec contents and objects
C14_FamiliesAgree ==
    FamilyView(fm_chk, fm_ret[1]) = FamilyView(fm_alc, fm_ret[2])

\* the families hold a full pagevec and an object, a call has just failed
\* in both, and only the checker family has counted anything
C14_Witness ==
    /\ fm_chk.pv.nr = PAGEVEC_SIZE
    /\ fm_chk.s.km # {}
    /\ fm_ret[1].err = -E2BIG
    /\ fm_chk.s.leaks = PAGEVEC_SIZE /\ fm_alc.s.leaks = 0
    /\ fm_chk.s.kleaks = Cardinality(fm_chk.s.km) /\ fm_alc.s.kleaks = 0
    /\ fm_chk.s.alloc = PAGEVEC_SIZE /\ fm_alc.s.alloc = 0
    /\ fm_chk.s.memleaks > 0 /\ fm_alc.s.memleaks = 0

\* slot i (from 1) of the page vector holds a live handle that no other slot
\* below count holds and no caller owns
LiveSlot(i) ==
    /\ array.pages[i] # 0
    /\ page_live[array.pages[i]]
    /\ page_ref[array.pages[i]] >= 1
    /\ page_held[array.pages[i]]
    /\ array.pages[i] \notin CallerHeld
    /\ \A j \in 1..array.count : array.pages[j] = array.pages[i] => j = i

\* every slot in [0, count) holds a live handle owned by the vector
LowerSlotsOccupied == \A i \in 1..array.count : LiveSlot(i)

UpperSlotsUnused ==
    /\ array.count <= array.capacity
    /\ \A i \in (array.count + 1)..array.capacity : array.pages[i] = 0

RemovedBelowTail ==
    op'.name = "remove" /\ op'.ret = 0 /\ op'.arg < array.count - 1

\* init has just run on a vector some slot of which holds a handle
InitOnOccupied ==
    op'.name = "init" /\ \E i \in 1..array.capacity : array.pages[i] # 0

C17_RemoveContract ==
    [][op'.name = "remove"
        => IF op'.arg >= array.count
           THEN /\ op'.ret = -ENOENT
                /\ op'.page = 0
                /\ UNCHANGED <<array, page_held, page_live, page_ref, Counters>>
           ELSE /\ op'.ret = 0
                /\ op'.page = array.pages[op'.arg + 1]
                /\ op'.page # 0 => op'.page \in CallerHeld' \ CallerHeld
                /\ array'.capacity = array.capacity
                /\ \A j \in 1..array.capacity :
                       array'.pages[j] = IF j = op'.arg + 1 THEN 0 ELSE array.pages[j]
                /\ array'.count = IF op'.arg = array.count - 1
                                  THEN array.count - 1
                                  ELSE array.count
                /\ UNCHANGED <<page_live, page_ref, Counters>>]_vars

\* remove(count) was refused on a vector that holds handles
C17_Witness ==
    /\ op.name = "remove"
    /\ op.ret = -ENOENT
    /\ op.arg = array.count
    /\ array.count >= 1
    /\ \A i \in 1..array.count : LiveSlot(i)

\* C18: when remove(i) took the handle h out of the last occupied slot and
\* the next call is add(h), the add succeeds and the vector is as the remove
\* found it: same count, same space, same handle in every slot, and h is
\* owned by the vector again
C18_RemoveAddRoundTrip ==
    (/\ op.name = "add"
     /\ op.before.created
     /\ op.before.count >= 1
     /\ op.before.pages[op.before.count] = op.page)
        => /\ op.ret = 0
           /\ ssdfs_page_vector_count(array) = ssdfs_page_vector_count(op.before)
           /\ ssdfs_page_vector_space(array) = ssdfs_page_vector_space(op.before)
           /\ \A i \in 1..array.capacity : array.pages[i] = op.before.pages[i]
           /\ array = op.before
           /\ op.page \notin CallerHeld

\* the last slot of a full vector was removed and added back, below it a
\* slot that an earlier remove emptied
C18_Witness ==
    /\ op.name = "add"
    /\ op.before.created
    /\ op.before.count = MaxCap
    /\ op.before.pages[MaxCap] = op.page
    /\ op.before.pages[1] = 0
    /\ array = op.before

\* C19: is_csum_valid leaves the record as it found it, the stored checksum
\* included, whatever it returns, and returns false when the declared
\* length exceeds buf_size or the SSDFS_CRC32 bit of the flags is clear
C19_VerifyLeavesRecord ==
    ut_pc = "verified"
        => /\ ut_ret \in BOOLEAN
           /\ check = ut_old
           /\ check.csum = ut_old.csum
           /\ ut_at # 0 => check = RecordAt(buf, ut_at)
           /\ (\/ le16_to_cpu(ut_old.bytes) > buf_size
               \/ BitOf(le16_to_cpu(ut_old.flags), 1) = 0) => ut_ret = FALSE

\* the recomputation succeeded with a value other than the stored one, and
\* the stored one is back in the record
C19_Witness ==
    /\ ut_pc = "verified"
    /\ le16_to_cpu(ut_old.bytes) = CsumBufLen
    /\ buf_size = CsumBufLen
    /\ BitOf(le16_to_cpu(ut_old.flags), 1) = 1
    /\ ssdfs_crc32_le(buf, le16_to_cpu(ut_old.bytes)) # ut_old.csum
    /\ check.csum = ut_old.csum
    /\ ut_ret = FALSE

\* a move inside one object has returned
MovedWithin(fn) == cp_pc = "done" /\ cp_call.same /\ cp_call.fn = fn

\* the destination range of the object r.dst holds what the source range of
\* the object held before the call, the bytes outside it are as before
MovedAsBefore(r) ==
    /\ r.ret = 0
    /\ ~r.wild
    /\ \A k \in 1..ObjLen :
           r.dst[k] = IF /\ k - 1 >= cp_call.dst_off[2]
                         /\ k - 1 < cp_call.dst_off[2] + cp_call.size[2]
                      THEN cp_src[cp_call.src_off[2] + (k - 1 - cp_call.dst_off[2]) + 1]
                      ELSE cp_src[k]

\* ssdfs_memmove inside one buffer: the destination range afterwards equals
\* the source range as it was before the call, in both builds
MoveRawOverlapSafe ==
    MovedWithin("ssdfs_memmove") => MovedAsBefore(cp_dbg) /\ MovedAsBefore(cp_rel)

\* C20: after a move whose in-range source and destination ranges lie in
\* the same buffer (ssdfs_memmove) or the same page (ssdfs_memmove_page),
\* overlapping or not, the destination range equals the source range as it
\* was before the call
C20_MoveOverlapSafe ==
    \A fn \in MoveFns :
        MovedWithin(fn) => MovedAsBefore(cp_dbg) /\ MovedAsBefore(cp_rel)

\* C21: create(capacity) fails with -EINVAL and creates nothing when the
\* capacity it receives is outside 1..255, which for the u8 parameter is
\* capacity 0; otherwise it fails with -ENOMEM and creates nothing, or it
\* succeeds and yields a vector with count 0 and exactly `capacity` slots,
\* all of them empty; capacity 255 is accepted
C21_CreateContract ==
    [][op'.name = "create"
        => /\ LET top == ssdfs_page_vector_create(array, U8(255), FALSE)
              IN  /\ top.err = 0
                  /\ top.arr.count = 0
                  /\ top.arr.capacity = 255
                  /\ Len(top.arr.pages) = 255
           /\ IF op'.arg < 1 \/ op'.arg > 255
              THEN op'.ret = -EINVAL /\ array' = array /\ ~array'.created
              ELSE \/ op'.ret = -ENOMEM /\ array' = array /\ ~array'.created
                   \/ /\ op'.ret = 0
                      /\ array'.created
                      /\ ssdfs_page_vector_count(array') = 0
                      /\ array'.capacity = op'.arg
                      /\ Len(array'.pages) = op'.arg
                      /\ ssdfs_page_vector_space(array') = op'.arg
                      /\ \A i \in 1..op'.arg : array'.pages[i] = 0]_vars

\* create(0) was refused
C21_Witness ==
    /\ op.name = "create"
    /\ op.arg = 0
    /\ op.ret = -EINVAL
    /\ ~array.created

\* a decrement has just left a counter below zero
DecrementedBelowZero ==
    \/ op.name = "unlock_page" /\ accounting /\ ssdfs_locked_pages < 0
    \/ op.name = "free_page" /\ accounting /\ ssdfs_allocated_pages < 0
    \/ op.name = "free_page" /\ variant = "checker" /\ name_page_leaks < 0
    \/ op.name = "forget_page" /\ variant = "checker" /\ name_page_leaks < 0

\* C22 as stated: a decrement that takes a counter below zero is performed
\* and logs a diagnostic
C22_NegativeDecrementLogged == DecrementedBelowZero => op.warn

\* C22: every decrement is performed whatever the counter holds:
\* ssdfs_unlock_page lowers ssdfs_locked_pages by one after unlock_page(),
\* then reads the counter again and warns exactly when what it reads is
\* below zero; ssdfs_free_page lowers ssdfs_allocated_pages,
\* and the checker family ssdfs_<name>_page_leaks, by one and warns only
\* about a locked page or a reference count other than 2, never about the
\* counters; the checker family's forget_page lowers
\* ssdfs_<name>_page_leaks by one for a page that is not NULL and never
\* warns; ssdfs_kfree and the checker family's kfree and
\* cache_leaks_decrement lower ssdfs_memory_leaks, ssdfs_<name>_memory_leaks
\* and ssdfs_<name>_cache_leaks below zero without a warning
C22_DecrementsPerformed ==
    [][/\ op'.name = "unlock_page.counted"
            => /\ unlock_call[op'.page].pc = "count"
               /\ ssdfs_locked_pages' = ssdfs_locked_pages - 1
       /\ op'.name = "unlock_page"
            => /\ accounting => unlock_call[op'.page].pc = "read"
               /\ ssdfs_locked_pages' = ssdfs_locked_pages
               /\ op'.warn = (accounting /\ ssdfs_locked_pages < 0)
       /\ op'.name = "free_page"
            => /\ ssdfs_allocated_pages' = ssdfs_allocated_pages - GlobalStep
               /\ name_page_leaks' = name_page_leaks - SubsystemStep
               /\ op'.warn = (\/ accounting /\ page_locked[op'.page]
                              \/ page_ref[op'.page] # 2)
       /\ op'.name = "forget_page"
            => /\ name_page_leaks' = name_page_leaks
                     - (IF variant = "checker" /\ op'.page # 0 THEN 1 ELSE 0)
               /\ ssdfs_allocated_pages' = ssdfs_allocated_pages
               /\ ~op'.warn
       /\ LET d == checker_cache_leaks_decrement(TRUE, NoMem)
          IN  d.cleaks = -1 /\ d.memleaks = -1 /\ ~d.warn
       /\ LET s == [NoMem EXCEPT !.km = {1}]
          IN  /\ ssdfs_kfree(TRUE, s, 1).memleaks = -1
              /\ ~ssdfs_kfree(TRUE, s, 1).warn
              /\ checker_kfree(TRUE, s, 1).memleaks = -1
              /\ checker_kfree(TRUE, s, 1).kleaks = -1
              /\ ~checker_kfree(TRUE, s, 1).warn]_vars

\* free_page of a page of another layer has taken the global and the
\* subsystem counter below zero and logged nothing
C22_Witness ==
    /\ op.name = "free_page"
    /\ accounting
    /\ variant = "checker"
    /\ ssdfs_allocated_pages = -1
    /\ name_page_leaks = -1
    /\ ~page_live[op.page]
    /\ ~op.warn

\* C23: no page is returned to the allocator while its lock flag is set:
\* after free_page on a locked handle the page is still allocated
C23_LockedPageNotFreed ==
    (op.name = "free_page" /\ page_locked[op.page]) => page_live[op.page]

\* the handles that were acquired and have not been freed
Outstanding == {p \in PageIds : page_held[p]}

\* the pages locked by a ssdfs_lock_page() that has not counted them yet
LockedUncounted == {p \in PageIds : lock_call[p].pc # "none"}

\* the pages unlocked by a ssdfs_unlock_page() that has not lowered the
\* counter yet
UnlockedCounted == {p \in PageIds : unlock_call[p].pc = "count"}

\* C24: with accounting, after any sequence of alloc_page,
\* add_pagevec_page, free_page, pagevec_release, lock_page and unlock_page
\* calls in which every free and unlock follows its acquire and lock,
\* ssdfs_allocated_pages is the number of pages acquired and not yet freed,
\* ssdfs_locked_pages the number of pages locked; neither is negative and
\* both are 0 when nothing is outstanding or locked.  While calls are
\* between their accesses ssdfs_locked_pages is short of the pages locked
\* by the locks not yet counted and ahead of it by the unlocks not yet
\* counted.
C24_CountersMatchPages ==
    accounting
        => /\ ssdfs_allocated_pages = Cardinality(Outstanding)
           /\ Outstanding = {p \in PageIds : page_live[p]}
           /\ ssdfs_locked_pages = Cardinality({p \in PageIds : page_locked[p]})
                                        - Cardinality(LockedUncounted)
                                        + Cardinality(UnlockedCounted)
           /\ NoCallInProgress
                => ssdfs_locked_pages = Cardinality({p \in PageIds : page_locked[p]})
           /\ ssdfs_allocated_pages >= 0
           /\ ssdfs_locked_pages >= 0
           /\ Outstanding = {} => ssdfs_allocated_pages = 0
           /\ (NoCallInProgress /\ \A p \in PageIds : ~page_locked[p])
                => ssdfs_locked_pages = 0

\* every page is outstanding, one in the caller's hands and the others in
\* the pagevec, and a call that unlocked one of them has just returned,
\* the last of the calls that were in progress
C24_Witness ==
    /\ accounting
    /\ op.name = "unlock_page"
    /\ NoCallInProgress
    /\ pagevec_count(pvec) = PAGEVEC_SIZE
    /\ CallerHeld # {}
    /\ ssdfs_allocated_pages = MaxPages
    /\ ssdfs_locked_pages = MaxPages - 1

\* C25: under a fair scheduler, and with every holder of a page lock calling
\* ssdfs_unlock_page(), a context that waits in ssdfs_lock_page() on a page
\* becomes the holder of that page's lock; while it waits, the only step it
\* takes is the acquisition of the lock of the page it asked for
C25_LockWaitEnds ==
    /\ \A c \in Ctx :
            (cx_pc[c] = "lock_wait") ~> (c \in Holders(cx_target[c]))
    /\ [][\A c \in Ctx :
            cx_pc[c] = "lock_wait"
                => /\ cx_target'[c] = cx_target[c]
                   /\ \/ cx_pc'[c] = "lock_wait"
                      \/ /\ c \in Holders(cx_target[c])'
                         /\ page_locked'[cx_target[c]]
                         /\ ~page_locked[cx_target[c]]]_vars

\* a context is inside lock_page() on a page that another context has
\* locked and not yet unlocked
C25_Witness ==
    \E c \in Ctx, d \in Ctx :
        /\ c # d
        /\ cx_pc[c] = "lock_wait"
        /\ cx_target[c] # 0
        /\ d \in Holders(cx_target[c])
        /\ page_locked[cx_target[c]]

\* C26: whenever a copy, move, fill or zero primitive built with its range
\* checks (CONFIG_SSDFS_DEBUG) reports success, dst_off + len <= dst_size
\* and, for copy and move, src_off + len <= src_size hold as mathematical
\* integers
C26_SuccessMeansInsideRange ==
    cp_pc = "done" /\ cp_dbg.ret = 0
        => /\ ~SumExceeds(cp_call.dst_off, cp_call.size, cp_call.dst_size)
           /\ cp_call.fn \notin FillFns
                => ~SumExceeds(cp_call.src_off, cp_call.size, cp_call.src_size)

\* C27: in a build with leak accounting, after any sequence of
\* ssdfs_<n>_alloc_page, ssdfs_<n>_add_pagevec_page, ssdfs_<n>_free_page and
\* ssdfs_<n>_pagevec_release calls of the subsystems, ssdfs_allocated_pages
\* is the sum of the subsystems' page counters; a ssdfs_<n>_pagevec_release
\* lowers the counter of subsystem n by the number ssdfs_allocated_pages
\* drops by, which is the number of pages the pagevec held, and leaves the
\* counter of the other subsystem alone
C27_GlobalIsSumOfSubsystems ==
    /\ [](ssdfs_allocated_pages = name_page_leaks + peer_page_leaks)
    /\ [][\A n \in Subsystems :
            TagPagevecRelease(n)
                => LET drop == ssdfs_allocated_pages - ssdfs_allocated_pages'
                   IN  /\ drop = pagevec_count(pvec)
                       /\ drop = op'.freed
                       /\ TagMem(n).leaks - drop
                            = (IF n = "name" THEN name_page_leaks' ELSE peer_page_leaks')
                       /\ n = "name" => peer_page_leaks' = peer_page_leaks
                       /\ n = "peer" => name_page_leaks' = name_page_leaks]_vars

\* one subsystem holds a loose page, the other had filled the pagevec and
\* has just released it
C27_Witness ==
    /\ op.name = "pagevec_release"
    /\ op.freed = PAGEVEC_SIZE
    /\ CallerHeld # {}
    /\ name_page_leaks = 1
    /\ peer_page_leaks = 0
    /\ ssdfs_allocated_pages = 1

\* C28: whenever free_page has completed on a handle, retained before the
\* call or not, the page has no reference left and is back in the
\* allocator, so every decrement of the outstanding-pages counter by
\* free_page goes with a page returned
C28_FreePageReturnsPage ==
    op.name = "free_page"
        => /\ page_ref[op.page] = 0
           /\ ~page_live[op.page]

====
